---- MODULE Spec2Model ----
(***************************************************************************)
(* Verification model of the solar (sulk) front-end infrastructure:        *)
(*   - crates/ast/src/visit.rs : the default bodies of the Visit/VisitMut  *)
(*     traits declared by declare_visitors!, run as a call-stack machine   *)
(*     over AST values;                                                    *)
(*   - crates/interface/src/lib.rs : enter / enter_with_exit_code;         *)
(*   - crates/solar/src/cli.rs : Args::populate_unstable and               *)
(*     ImportMap::from_str.                                                *)
(***************************************************************************)
EXTENDS Integers, Sequences, FiniteSets, TLC

VARIABLES
  tree,      \* the AST rooted at a SourceUnit that is being walked
  visitor,   \* "Visit", "VisitMut", or "done" once both walks have returned
  stack,     \* pending visit calls of the running walk, innermost first
  trace,     \* per visitor: the visit calls made so far, in call order
  frames,          \* the thread's call stack below the caller of enter, innermost first
  SESSION_GLOBALS, \* the thread-local slot: the active session, 0 when not set
  sessions,        \* the SessionGlobals values that are alive
  created,         \* how many SessionGlobals values have been created
  entered,         \* how many enter / enter_with_exit_code calls have been made
  panicking,       \* the payload of the unwinding in progress, "none" if none
  log,             \* what the thread has done so far, in order
  argv,            \* the command line given to the solar binary
  cli_args,        \* what Args::try_parse_from made of it, None before
  populated,       \* what populate_unstable returned, None before
  from,            \* the string given to ImportMap::from_str
  import_map       \* what ImportMap::from_str returned, None before

visitVars == <<tree, visitor, stack, trace>>

sessionVars == <<frames, SESSION_GLOBALS, sessions, created, entered, panicking, log>>

cliVars == <<argv, cli_args, populated, from, import_map>>

vars == <<visitVars, sessionVars, cliVars>>

(***************************************************************************)
(* Bounds of the model.                                                    *)
(***************************************************************************)
\* Longest list (arguments, inheritance, body items, catch clauses, ...).
MaxLen == 2

\* Most enter / enter_with_exit_code calls of the thread.
MaxCalls == 2

\* Most steps (and plain calls) of all closures together.
MaxSteps == 1

\* Most arguments on the command line, after the name of the binary.
MaxArgs == 3

\* Longest string given to ImportMap::from_str.
MaxStr == 4

(***************************************************************************)
(* Values.  An Option<T> is a sequence of length 0 or 1; a Vec<T> is a     *)
(* sequence; a reference &'ast T is the address of the node: the sequence  *)
(* of field names and element indices that leads to it from the root.      *)
(***************************************************************************)
None == <<>>

Some(x) == <<x>>

\* The name of element k of a list, as an address step.
Ix(k) == <<"1", "2", "3", "4", "5", "6", "7", "8", "9">>[k]

IxOf(s) ==
  CASE s = "1" -> 1 [] s = "2" -> 2 [] s = "3" -> 3 [] s = "4" -> 4
    [] s = "5" -> 5 [] s = "6" -> 6 [] s = "7" -> 7 [] s = "8" -> 8
    [] s = "9" -> 9 [] OTHER -> 0

\* One dereference step: a field of a struct, or an element of a list.
Step(v, s) == IF IxOf(s) = 0 THEN v[s] ELSE v[IxOf(s)]

RECURSIVE Deref(_, _)
Deref(v, at) == IF at = <<>> THEN v ELSE Deref(Step(v, Head(at)), Tail(at))

Fld(at, f) == Append(at, f)

Elt(at, k) == Append(at, Ix(k))

Range(s) == {s[i] : i \in 1..Len(s)}

\* at is the address p itself or an address below p.
Under(p, at) == Len(at) >= Len(p) /\ SubSeq(at, 1, Len(p)) = p

(***************************************************************************)
(* AST values.  The fields of every struct are those of the destructuring  *)
(* pattern of its visit method (a Rust struct pattern without `..` names   *)
(* every field).  An enum value is a record whose field variant names the  *)
(* variant and whose other fields are the variant's payload, named as the  *)
(* match arm binds them.  Fields that hold no node (operators, flags, ...) *)
(* keep one fixed value.                                                   *)
(***************************************************************************)
\* Span: a half-open extent [lo, hi) of source text, lo <= hi.
Span(lo, hi) == [lo |-> lo, hi |-> hi]

\* Slot k (0..3) of the four equal slots of span s: where a parser finds the
\* k-th piece of the text that s covers.
Sub(s, k) ==
  LET w == (s.hi - s.lo) \div 4
  IN  Span(s.lo + k * w, s.lo + (k + 1) * w)

Ident(name, span) == [name |-> name, span |-> span]

Path(segments) == [segments |-> segments]

Lit(span) == [span |-> span, symbol |-> "1", kind |-> "Number"]

\* A string literal: the path of an import directive.
LitStr(span) == [span |-> span, symbol |-> "./A.sol", kind |-> "Str"]

DocComment(span) == [kind |-> "Line", span |-> span, symbol |-> "doc"]

SourceUnit(items) == [items |-> items]

Item(docs, span, kind) == [docs |-> docs, span |-> span, kind |-> kind]

\* ItemKind::Pragma(item), ..., ItemKind::Event(item).
ItemKind(variant, item) == [variant |-> variant, item |-> item]

PragmaDirective == [tokens |-> "solidity ^0.8.0"]

ImportDirective(path, items) == [path |-> path, items |-> items]

\* ImportItems::Plain(alias) and ImportItems::Glob(alias).
ImportItems(variant, alias) == [variant |-> variant, alias |-> alias]

\* ImportItems::Aliases(paths): a list of (import, alias) pairs.
ImportAliases(paths) == [variant |-> "Aliases", paths |-> paths]

\* UsingDirective { list, ty, global }.
UsingDirective(list, ty) == [list |-> list, ty |-> ty, global |-> FALSE]

UsingSingle(path) == [variant |-> "Single", path |-> path]

\* UsingList::Multiple(paths): a list of (path, operator) pairs.
UsingMultiple(paths) == [variant |-> "Multiple", paths |-> paths]

ItemContract(name, inheritance, body) ==
  [kind |-> "Contract", name |-> name, inheritance |-> inheritance, body |-> body]

ItemFunction(header, body) ==
  [kind |-> "Function", header |-> header, body |-> body]

ItemStruct(name, fields) == [name |-> name, fields |-> fields]

ItemEnum(name, variants) == [name |-> name, variants |-> variants]

ItemUdvt(name, ty) == [name |-> name, ty |-> ty]

ItemError(name, parameters) == [name |-> name, parameters |-> parameters]

ItemEvent(name, parameters) ==
  [name |-> name, parameters |-> parameters, anonymous |-> FALSE]

VariableDefinition(ty, name, initializer) ==
  [ty |-> ty, visibility |-> None, mutability |-> None, data_location |-> None,
   override_ |-> None, indexed |-> FALSE, name |-> name,
   initializer |-> initializer]

Ty(span, kind) == [span |-> span, kind |-> kind]

\* TyKind::Address(_), Bool, String, Bytes, Fixed(..), ..., FixedBytes(_).
TyElementary(variant) == [variant |-> variant]

\* TyKind::Array(array), array: TypeArray { element, size }.
TyArray(element, size) ==
  [variant |-> "Array", array |-> [element |-> element, size |-> size]]

\* TyKind::Function(function), function: FunctionHeader.
TyFunction(function) == [variant |-> "Function", function |-> function]

\* TyKind::Mapping(mapping), mapping: TypeMapping { key, key_name, value, value_name }.
TyMapping(key, key_name, value, value_name) ==
  [variant |-> "Mapping",
   mapping |-> [key |-> key, key_name |-> key_name, value |-> value,
                value_name |-> value_name]]

TyCustom(path) == [variant |-> "Custom", path |-> path]

FunctionHeader(name, parameters, modifiers, returns) ==
  [name |-> name, parameters |-> parameters, visibility |-> None,
   state_mutability |-> "NonPayable", modifiers |-> modifiers,
   virtual_ |-> FALSE, override_ |-> None, returns |-> returns]

Modifier(name, arguments) == [name |-> name, arguments |-> arguments]

CallArgsNamed(named) == [variant |-> "Named", named |-> named]

CallArgsUnnamed(unnamed) == [variant |-> "Unnamed", unnamed |-> unnamed]

NamedArg(name, value) == [name |-> name, value |-> value]

Stmt(docs, span, kind) == [docs |-> docs, span |-> span, kind |-> kind]

StmtAssembly(block) == [dialect |-> None, flags |-> <<>>, block |-> block]

StmtTry(expr, returns, block, catch) ==
  [expr |-> expr, returns |-> returns, block |-> block, catch |-> catch]

CatchClause(name, args, block) == [name |-> name, args |-> args, block |-> block]

Expr(span, kind) == [span |-> span, kind |-> kind]

\* yul::Stmt { docs, span, kind }.
YulStmt(docs, span, kind) == [docs |-> docs, span |-> span, kind |-> kind]

\* yul::Expr { span, kind }.
YulExpr(span, kind) == [span |-> span, kind |-> kind]

YulExprCall(name, arguments) == [name |-> name, arguments |-> arguments]

YulStmtSwitch(selector, branches, default_case) ==
  [selector |-> selector, branches |-> branches, default_case |-> default_case]

YulStmtSwitchCase(constant, body) == [constant |-> constant, body |-> body]

YulFunction(name, parameters, returns, body) ==
  [name |-> name, parameters |-> parameters, returns |-> returns, body |-> body]

(***************************************************************************)
(* The walk.  declare_visitors! expands the one trait body twice: in Visit *)
(* every `#mut` and `#_mut` is dropped, in VisitMut they become `mut` and  *)
(* the suffix `_mut`, so the method m of a call is visit_X in Visit and    *)
(* visit_X_mut in VisitMut.  A method call is a frame [m, at]: the method  *)
(* and the address of its argument.  An action is one default method body: *)
(* it pops its own frame, records the call, and pushes the calls the body  *)
(* makes, in the order the body makes them.                                *)
(***************************************************************************)
Call(m, at) == [m |-> m, at |-> at]

Top == Head(stack)

\* The node the running method was called with.
Arg == Deref(tree, Top.at)

Invoked(m) == visitor \in {"Visit", "VisitMut"} /\ stack # <<>> /\ Top.m = m

Body(calls) ==
  /\ stack' = calls \o Tail(stack)
  /\ trace' = [trace EXCEPT ![visitor] = Append(@, Top)]
  /\ UNCHANGED <<tree, visitor, sessionVars, cliVars>>

RECURSIVE Concat(_)
Concat(ss) == IF ss = <<>> THEN <<>> ELSE Head(ss) \o Concat(Tail(ss))

\* for x in list { self.m(x) }, the list being at address at.
ForEach(m, at, list) == [k \in 1..Len(list) |-> Call(m, Elt(at, k))]

\* if let Some(x) = opt { self.m(x) }, the option being at address at.
IfSome(m, at, opt) == IF Len(opt) = 0 THEN <<>> ELSE <<Call(m, Elt(at, 1))>>

\* Path::segments and Path::segments_mut: the idents of a path.
segments(path) == path.segments

segments_mut(path) == path.segments

(***************************************************************************)
(* What a node holds.  Fields(m, n, at) lists, for the node n at address   *)
(* at that method m takes, the nodes n holds directly: every field that    *)
(* the destructuring pattern of m binds and hands to a visit method, in    *)
(* the order in which the pattern (the declaration) names the fields, each *)
(* with the method that takes a node of its type.                          *)
(***************************************************************************)
ItemKindMethod(variant) ==
  CASE variant = "Pragma" -> "visit_pragma_directive"
    [] variant = "Import" -> "visit_import_directive"
    [] variant = "Using" -> "visit_using_directive"
    [] variant = "Contract" -> "visit_item_contract"
    [] variant = "Function" -> "visit_item_function"
    [] variant = "Variable" -> "visit_variable_definition"
    [] variant = "Struct" -> "visit_item_struct"
    [] variant = "Enum" -> "visit_item_enum"
    [] variant = "Udvt" -> "visit_item_udvt"
    [] variant = "Error" -> "visit_item_error"
    [] variant = "Event" -> "visit_item_event"

ExprKindFields(k, kind) ==
  LET v == k.variant
  IN  CASE v = "Array" -> ForEach("visit_expr", Fld(kind, "exprs"), k.exprs)
        [] v \in {"Assign", "Binary"} ->
             <<Call("visit_expr", Fld(kind, "lhs")), Call("visit_expr", Fld(kind, "rhs"))>>
        [] v = "Call" ->
             <<Call("visit_expr", Fld(kind, "lhs")),
               Call("visit_call_args", Fld(kind, "args"))>>
        [] v = "CallOptions" ->
             <<Call("visit_expr", Fld(kind, "lhs")),
               Call("visit_named_args", Fld(kind, "args"))>>
        [] v \in {"Delete", "Unary"} -> <<Call("visit_expr", Fld(kind, "expr"))>>
        [] v = "Ident" -> <<Call("visit_ident", Fld(kind, "ident"))>>
        [] v = "Index" ->
             <<Call("visit_expr", Fld(kind, "lhs"))>>
             \o (IF k.kind.variant = "Index"
                   THEN IfSome("visit_expr", Fld(Fld(kind, "kind"), "expr"), k.kind.expr)
                   ELSE IfSome("visit_expr", Fld(Fld(kind, "kind"), "start"),
                               k.kind.start)
                        \o IfSome("visit_expr", Fld(Fld(kind, "kind"), "end"),
                                  k.kind.end))
        [] v = "Lit" -> <<Call("visit_lit", Fld(kind, "lit"))>>
        [] v = "Member" ->
             <<Call("visit_expr", Fld(kind, "expr")),
               Call("visit_ident", Fld(kind, "member"))>>
        [] v \in {"New", "TypeCall", "Type"} -> <<Call("visit_ty", Fld(kind, "ty"))>>
        [] v = "Payable" -> <<Call("visit_call_args", Fld(kind, "args"))>>
        [] v = "Ternary" ->
             <<Call("visit_expr", Fld(kind, "cond")),
               Call("visit_expr", Fld(kind, "true_")),
               Call("visit_expr", Fld(kind, "false_"))>>
        [] v = "Tuple" ->
             Concat([i \in 1..Len(k.exprs) |->
                IfSome("visit_expr", Elt(Fld(kind, "exprs"), i), k.exprs[i])])

StmtKindFields(k, kind) ==
  LET v == k.variant
  IN  CASE v = "Assembly" -> <<Call("visit_stmt_assembly", Fld(kind, "assembly"))>>
        [] v = "DeclSingle" -> <<Call("visit_variable_definition", Fld(kind, "var"))>>
        [] v = "DeclMulti" ->
             Concat([i \in 1..Len(k.vars) |->
                IfSome("visit_variable_definition", Elt(Fld(kind, "vars"), i),
                       k.vars[i])])
             \o <<Call("visit_expr", Fld(kind, "expr"))>>
        [] v \in {"Block", "UncheckedBlock"} -> <<Call("visit_block", Fld(kind, "block"))>>
        [] v \in {"Break", "Continue"} -> <<>>
        [] v = "DoWhile" ->
             <<Call("visit_block", Fld(kind, "block")),
               Call("visit_expr", Fld(kind, "expr"))>>
        [] v \in {"Emit", "Revert"} ->
             <<Call("visit_path", Fld(kind, "path")),
               Call("visit_call_args", Fld(kind, "args"))>>
        [] v = "Expr" -> <<Call("visit_expr", Fld(kind, "expr"))>>
        [] v = "For" ->
             IfSome("visit_stmt", Fld(kind, "init"), k.init)
             \o IfSome("visit_expr", Fld(kind, "cond"), k.cond)
             \o IfSome("visit_expr", Fld(kind, "next"), k.next)
             \o <<Call("visit_stmt", Fld(kind, "body"))>>
        [] v = "If" ->
             <<Call("visit_expr", Fld(kind, "cond")), Call("visit_stmt", Fld(kind, "then"))>>
             \o IfSome("visit_stmt", Fld(kind, "else_"), k.else_)
        [] v = "Return" -> IfSome("visit_expr", Fld(kind, "expr"), k.expr)
        [] v = "Try" -> <<Call("visit_stmt_try", Fld(kind, "try_"))>>
        [] v = "While" ->
             <<Call("visit_expr", Fld(kind, "cond")),
               Call("visit_stmt", Fld(kind, "block"))>>

YulStmtKindFields(k, kind) ==
  LET v == k.variant
  IN  CASE v = "Block" -> <<Call("visit_yul_block", Fld(kind, "block"))>>
        [] v = "AssignSingle" ->
             <<Call("visit_path", Fld(kind, "path")),
               Call("visit_yul_expr", Fld(kind, "expr"))>>
        [] v = "AssignMulti" ->
             ForEach("visit_path", Fld(kind, "paths"), k.paths)
             \o <<Call("visit_yul_expr_call", Fld(kind, "call"))>>
        [] v = "Expr" -> <<Call("visit_yul_expr_call", Fld(kind, "call"))>>
        [] v = "If" ->
             <<Call("visit_yul_expr", Fld(kind, "expr")),
               Call("visit_yul_block", Fld(kind, "block"))>>
        [] v = "For" ->
             <<Call("visit_yul_block", Fld(kind, "init")),
               Call("visit_yul_expr", Fld(kind, "cond")),
               Call("visit_yul_block", Fld(kind, "step")),
               Call("visit_yul_block", Fld(kind, "body"))>>
        [] v = "Switch" -> <<Call("visit_yul_stmt_switch", Fld(kind, "switch"))>>
        [] v \in {"Leave", "Break", "Continue"} -> <<>>
        [] v = "FunctionDef" -> <<Call("visit_yul_function", Fld(kind, "function"))>>
        [] v = "VarDecl" ->
             ForEach("visit_ident", Fld(kind, "idents"), k.idents)
             \o IfSome("visit_yul_expr", Fld(kind, "expr"), k.expr)

TyKindFields(k, kind) ==
  LET v == k.variant
  IN  CASE v = "Array" -> <<Call("visit_ty", Fld(Fld(kind, "array"), "element"))>>
        [] v = "Function" -> <<Call("visit_function_header", Fld(kind, "function"))>>
        [] v = "Mapping" ->
             <<Call("visit_ty", Fld(Fld(kind, "mapping"), "key"))>>
             \o IfSome("visit_ident", Fld(Fld(kind, "mapping"), "key_name"),
                       k.mapping.key_name)
             \o <<Call("visit_ty", Fld(Fld(kind, "mapping"), "value"))>>
             \o IfSome("visit_ident", Fld(Fld(kind, "mapping"), "value_name"),
                       k.mapping.value_name)
        [] v = "Custom" -> <<Call("visit_path", Fld(kind, "path"))>>
        [] OTHER -> <<>>

ImportItemsFields(items, at) ==
  IF items.variant = "Aliases"
    THEN Concat([k \in 1..Len(items.paths) |->
            <<Call("visit_ident", Elt(Elt(Fld(at, "paths"), k), 1))>>
            \o IfSome("visit_ident", Elt(Elt(Fld(at, "paths"), k), 2),
                      items.paths[k][2])])
    ELSE IfSome("visit_ident", Fld(at, "alias"), items.alias)

UsingListFields(list, at) ==
  IF list.variant = "Single"
    THEN <<Call("visit_path", Fld(at, "path"))>>
    ELSE [k \in 1..Len(list.paths) |->
            Call("visit_path", Elt(Elt(Fld(at, "paths"), k), 1))]

Fields(m, n, at) ==
  CASE m = "visit_source_unit" -> ForEach("visit_item", Fld(at, "items"), n.items)
    [] m = "visit_item" ->
         <<Call("visit_doc_comments", Fld(at, "docs")), Call("visit_span", Fld(at, "span")),
           Call(ItemKindMethod(n.kind.variant), Fld(Fld(at, "kind"), "item"))>>
    [] m = "visit_pragma_directive" -> <<>>
    [] m = "visit_import_directive" -> ImportItemsFields(n.items, Fld(at, "items"))
    [] m = "visit_using_directive" ->
         UsingListFields(n.list, Fld(at, "list")) \o IfSome("visit_ty", Fld(at, "ty"), n.ty)
    [] m = "visit_item_contract" ->
         <<Call("visit_ident", Fld(at, "name"))>>
         \o ForEach("visit_modifier", Fld(at, "inheritance"), n.inheritance)
         \o ForEach("visit_item", Fld(at, "body"), n.body)
    [] m = "visit_item_function" ->
         <<Call("visit_function_header", Fld(at, "header"))>>
         \o IfSome("visit_block", Fld(at, "body"), n.body)
    [] m = "visit_item_struct" ->
         <<Call("visit_ident", Fld(at, "name"))>>
         \o ForEach("visit_variable_definition", Fld(at, "fields"), n.fields)
    [] m = "visit_item_enum" ->
         <<Call("visit_ident", Fld(at, "name"))>>
         \o ForEach("visit_ident", Fld(at, "variants"), n.variants)
    [] m = "visit_item_udvt" ->
         <<Call("visit_ident", Fld(at, "name")), Call("visit_ty", Fld(at, "ty"))>>
    [] m \in {"visit_item_error", "visit_item_event"} ->
         <<Call("visit_ident", Fld(at, "name")),
           Call("visit_parameter_list", Fld(at, "parameters"))>>
    [] m = "visit_variable_definition" ->
         <<Call("visit_ty", Fld(at, "ty"))>>
         \o IfSome("visit_ident", Fld(at, "name"), n.name)
         \o IfSome("visit_expr", Fld(at, "initializer"), n.initializer)
    [] m = "visit_ty" ->
         <<Call("visit_span", Fld(at, "span"))>> \o TyKindFields(n.kind, Fld(at, "kind"))
    [] m = "visit_function_header" ->
         IfSome("visit_ident", Fld(at, "name"), n.name)
         \o <<Call("visit_parameter_list", Fld(at, "parameters"))>>
         \o ForEach("visit_modifier", Fld(at, "modifiers"), n.modifiers)
         \o <<Call("visit_parameter_list", Fld(at, "returns"))>>
    [] m = "visit_modifier" ->
         <<Call("visit_path", Fld(at, "name")),
           Call("visit_call_args", Fld(at, "arguments"))>>
    [] m = "visit_call_args" ->
         IF n.variant = "Named"
           THEN <<Call("visit_named_args", Fld(at, "named"))>>
           ELSE ForEach("visit_expr", Fld(at, "unnamed"), n.unnamed)
    [] m = "visit_named_args" ->
         Concat([k \in 1..Len(n) |->
            <<Call("visit_ident", Fld(Elt(at, k), "name")),
              Call("visit_expr", Fld(Elt(at, k), "value"))>>])
    [] m = "visit_stmt" ->
         <<Call("visit_doc_comments", Fld(at, "docs")), Call("visit_span", Fld(at, "span"))>>
         \o StmtKindFields(n.kind, Fld(at, "kind"))
    [] m = "visit_stmt_assembly" -> <<Call("visit_yul_block", Fld(at, "block"))>>
    [] m = "visit_stmt_try" ->
         <<Call("visit_expr", Fld(at, "expr")),
           Call("visit_parameter_list", Fld(at, "returns")),
           Call("visit_block", Fld(at, "block"))>>
         \o ForEach("visit_catch_clause", Fld(at, "catch"), n.catch)
    [] m = "visit_catch_clause" ->
         IfSome("visit_ident", Fld(at, "name"), n.name)
         \o <<Call("visit_parameter_list", Fld(at, "args")),
              Call("visit_block", Fld(at, "block"))>>
    [] m = "visit_block" -> ForEach("visit_stmt", at, n)
    [] m = "visit_expr" ->
         <<Call("visit_span", Fld(at, "span"))>> \o ExprKindFields(n.kind, Fld(at, "kind"))
    [] m = "visit_parameter_list" -> ForEach("visit_variable_definition", at, n)
    [] m \in {"visit_lit", "visit_doc_comment", "visit_ident"} ->
         <<Call("visit_span", Fld(at, "span"))>>
    [] m = "visit_yul_stmt" ->
         <<Call("visit_doc_comments", Fld(at, "docs")), Call("visit_span", Fld(at, "span"))>>
         \o YulStmtKindFields(n.kind, Fld(at, "kind"))
    [] m = "visit_yul_block" -> ForEach("visit_yul_stmt", at, n)
    [] m = "visit_yul_stmt_switch" ->
         <<Call("visit_yul_expr", Fld(at, "selector"))>>
         \o ForEach("visit_yul_stmt_case", Fld(at, "branches"), n.branches)
         \o IfSome("visit_yul_block", Fld(at, "default_case"), n.default_case)
    [] m = "visit_yul_stmt_case" ->
         <<Call("visit_lit", Fld(at, "constant")), Call("visit_yul_block", Fld(at, "body"))>>
    [] m = "visit_yul_function" ->
         <<Call("visit_ident", Fld(at, "name"))>>
         \o ForEach("visit_ident", Fld(at, "parameters"), n.parameters)
         \o ForEach("visit_ident", Fld(at, "returns"), n.returns)
         \o <<Call("visit_yul_block", Fld(at, "body"))>>
    [] m = "visit_yul_expr" ->
         <<Call("visit_span", Fld(at, "span"))>>
         \o (CASE n.kind.variant = "Path" ->
                    <<Call("visit_path", Fld(Fld(at, "kind"), "path"))>>
               [] n.kind.variant = "Call" ->
                    <<Call("visit_yul_expr_call", Fld(Fld(at, "kind"), "call"))>>
               [] n.kind.variant = "Lit" ->
                    <<Call("visit_lit", Fld(Fld(at, "kind"), "lit"))>>)
    [] m = "visit_yul_expr_call" ->
         <<Call("visit_ident", Fld(at, "name"))>>
         \o ForEach("visit_yul_expr", Fld(at, "arguments"), n.arguments)
    [] m = "visit_doc_comments" -> ForEach("visit_doc_comment", at, n)
    [] m = "visit_path" -> ForEach("visit_ident", Fld(at, "segments"), n.segments)
    [] m = "visit_span" -> <<>>

\* The nodes a node holds in a field that the pattern of its visit method
\* binds without visiting it: the path of an import directive (`let _ = path`),
\* a string literal, and the size of an array type (`size: _`), an optional
\* expression.
FieldsNotVisited(m, n, at) ==
  CASE m = "visit_import_directive" -> <<Call("visit_lit", Fld(at, "path"))>>
    [] m = "visit_ty" /\ n.kind.variant = "Array" ->
         IfSome("visit_expr", Fld(Fld(Fld(at, "kind"), "array"), "size"),
                n.kind.array.size)
    [] OTHER -> <<>>

\* Every node held anywhere in the node at address at, that node included, each
\* with the method that takes it.
RECURSIVE Nodes(_, _, _)
Nodes(t, m, at) ==
  LET n == Deref(t, at)
      held == Fields(m, n, at) \o FieldsNotVisited(m, n, at)
  IN  {Call(m, at)} \cup UNION {Nodes(t, held[i].m, held[i].at) : i \in 1..Len(held)}

visit_source_unit ==
  /\ Invoked("visit_source_unit")
  /\ LET source_unit == Arg
         at == Top.at
     IN  Body(ForEach("visit_item", Fld(at, "items"), source_unit.items))

visit_item ==
  /\ Invoked("visit_item")
  /\ LET item == Arg
         at == Top.at
         kind == Fld(Fld(at, "kind"), "item")
         v == item.kind.variant
     IN  Body(<<Call("visit_span", Fld(at, "span")),
                Call("visit_doc_comments", Fld(at, "docs")),
                CASE v = "Pragma" -> Call("visit_pragma_directive", kind)
                  [] v = "Import" -> Call("visit_import_directive", kind)
                  [] v = "Using" -> Call("visit_using_directive", kind)
                  [] v = "Contract" -> Call("visit_item_contract", kind)
                  [] v = "Function" -> Call("visit_item_function", kind)
                  [] v = "Variable" -> Call("visit_variable_definition", kind)
                  [] v = "Struct" -> Call("visit_item_struct", kind)
                  [] v = "Enum" -> Call("visit_item_enum", kind)
                  [] v = "Udvt" -> Call("visit_item_udvt", kind)
                  [] v = "Error" -> Call("visit_item_error", kind)
                  [] v = "Event" -> Call("visit_item_event", kind)>>)

visit_pragma_directive ==
  /\ Invoked("visit_pragma_directive")
  /\ Body(<<>>)

visit_import_directive ==
  /\ Invoked("visit_import_directive")
  /\ LET import == Arg
         items == Fld(Top.at, "items")
         v == import.items.variant
     IN  Body(CASE v = "Plain" ->
                     IfSome("visit_ident", Fld(items, "alias"), import.items.alias)
                [] v = "Aliases" ->
                     Concat([k \in 1..Len(import.items.paths) |->
                        LET pair == Elt(Fld(items, "paths"), k)
                        IN  <<Call("visit_ident", Elt(pair, 1))>>
                            \o IfSome("visit_ident", Elt(pair, 2),
                                      import.items.paths[k][2])])
                [] v = "Glob" ->
                     IfSome("visit_ident", Fld(items, "alias"), import.items.alias))

visit_using_directive ==
  /\ Invoked("visit_using_directive")
  /\ LET using == Arg
         at == Top.at
         list == Fld(at, "list")
         v == using.list.variant
     IN  Body((CASE v = "Single" -> <<Call("visit_path", Fld(list, "path"))>>
                 [] v = "Multiple" ->
                      [k \in 1..Len(using.list.paths) |->
                         Call("visit_path", Elt(Elt(Fld(list, "paths"), k), 1))])
              \o IfSome("visit_ty", Fld(at, "ty"), using.ty))

\* visit_item_contract with the body items visited before the inheritance.
visit_item_contract_body_first ==
  /\ Invoked("visit_item_contract")
  /\ LET contract == Arg
         at == Top.at
     IN  Body(<<Call("visit_ident", Fld(at, "name"))>>
              \o ForEach("visit_item", Fld(at, "body"), contract.body)
              \o ForEach("visit_modifier", Fld(at, "inheritance"), contract.inheritance))

visit_item_contract ==
  /\ Invoked("visit_item_contract")
  /\ LET contract == Arg
         at == Top.at
     IN  Body(<<Call("visit_ident", Fld(at, "name"))>>
              \o ForEach("visit_modifier", Fld(at, "inheritance"), contract.inheritance)
              \o ForEach("visit_item", Fld(at, "body"), contract.body))

visit_item_function ==
  /\ Invoked("visit_item_function")
  /\ LET function == Arg
         at == Top.at
     IN  Body(<<Call("visit_function_header", Fld(at, "header"))>>
              \o IfSome("visit_block", Fld(at, "body"), function.body))

visit_item_struct ==
  /\ Invoked("visit_item_struct")
  /\ LET strukt == Arg
         at == Top.at
     IN  Body(<<Call("visit_ident", Fld(at, "name"))>>
              \o ForEach("visit_variable_definition", Fld(at, "fields"), strukt.fields))

visit_item_enum ==
  /\ Invoked("visit_item_enum")
  /\ LET enum_ == Arg
         at == Top.at
     IN  Body(<<Call("visit_ident", Fld(at, "name"))>>
              \o ForEach("visit_ident", Fld(at, "variants"), enum_.variants))

visit_item_udvt ==
  /\ Invoked("visit_item_udvt")
  /\ LET at == Top.at
     IN  Body(<<Call("visit_ident", Fld(at, "name")), Call("visit_ty", Fld(at, "ty"))>>)

visit_item_error ==
  /\ Invoked("visit_item_error")
  /\ LET at == Top.at
     IN  Body(<<Call("visit_ident", Fld(at, "name")),
                Call("visit_parameter_list", Fld(at, "parameters"))>>)

visit_item_event ==
  /\ Invoked("visit_item_event")
  /\ LET at == Top.at
     IN  Body(<<Call("visit_ident", Fld(at, "name")),
                Call("visit_parameter_list", Fld(at, "parameters"))>>)

visit_variable_definition ==
  /\ Invoked("visit_variable_definition")
  /\ LET var == Arg
         at == Top.at
     IN  Body(<<Call("visit_ty", Fld(at, "ty"))>>
              \o IfSome("visit_ident", Fld(at, "name"), var.name)
              \o IfSome("visit_expr", Fld(at, "initializer"), var.initializer))

visit_ty ==
  /\ Invoked("visit_ty")
  /\ LET ty == Arg
         at == Top.at
         kind == Fld(at, "kind")
         v == ty.kind.variant
     IN  Body(<<Call("visit_span", Fld(at, "span"))>>
              \o CASE v = "Array" ->
                        <<Call("visit_ty", Fld(Fld(kind, "array"), "element"))>>
                   [] v = "Function" ->
                        <<Call("visit_function_header", Fld(kind, "function"))>>
                   [] v = "Mapping" ->
                        LET mapping == Fld(kind, "mapping")
                        IN  <<Call("visit_ty", Fld(mapping, "key"))>>
                            \o IfSome("visit_ident", Fld(mapping, "key_name"),
                                      ty.kind.mapping.key_name)
                            \o <<Call("visit_ty", Fld(mapping, "value"))>>
                            \o IfSome("visit_ident", Fld(mapping, "value_name"),
                                      ty.kind.mapping.value_name)
                   [] v = "Custom" -> <<Call("visit_path", Fld(kind, "path"))>>
                   [] OTHER -> <<>>)

visit_function_header ==
  /\ Invoked("visit_function_header")
  /\ LET header == Arg
         at == Top.at
     IN  Body(IfSome("visit_ident", Fld(at, "name"), header.name)
              \o <<Call("visit_parameter_list", Fld(at, "parameters"))>>
              \o ForEach("visit_modifier", Fld(at, "modifiers"), header.modifiers)
              \o <<Call("visit_parameter_list", Fld(at, "returns"))>>)

\* visit_modifier with a visit_modifier_mut that visits the arguments first.
visit_modifier_mut_differs ==
  /\ Invoked("visit_modifier")
  /\ LET at == Top.at
     IN  Body(IF visitor = "VisitMut"
                THEN <<Call("visit_call_args", Fld(at, "arguments")),
                       Call("visit_path", Fld(at, "name"))>>
                ELSE <<Call("visit_path", Fld(at, "name")),
                       Call("visit_call_args", Fld(at, "arguments"))>>)

visit_modifier ==
  /\ Invoked("visit_modifier")
  /\ LET at == Top.at
     IN  Body(<<Call("visit_path", Fld(at, "name")),
                Call("visit_call_args", Fld(at, "arguments"))>>)

visit_call_args ==
  /\ Invoked("visit_call_args")
  /\ LET args == Arg
         at == Top.at
         v == args.variant
     IN  Body(CASE v = "Named" -> <<Call("visit_named_args", Fld(at, "named"))>>
                [] v = "Unnamed" ->
                     ForEach("visit_expr", Fld(at, "unnamed"), args.unnamed))

visit_named_args ==
  /\ Invoked("visit_named_args")
  /\ LET args == Arg
         at == Top.at
     IN  Body(Concat([k \in 1..Len(args) |->
                <<Call("visit_ident", Fld(Elt(at, k), "name")),
                  Call("visit_expr", Fld(Elt(at, k), "value"))>>]))

Reverse(s) == [i \in 1..Len(s) |-> s[Len(s) + 1 - i]]

\* visit_stmt with the children of the statement visited last to first.
visit_stmt_last_first ==
  /\ Invoked("visit_stmt")
  /\ LET stmt == Arg
         at == Top.at
     IN  Body(<<Call("visit_doc_comments", Fld(at, "docs")),
                Call("visit_span", Fld(at, "span"))>>
              \o Reverse(StmtKindFields(stmt.kind, Fld(at, "kind"))))

visit_stmt ==
  /\ Invoked("visit_stmt")
  /\ LET stmt == Arg
         at == Top.at
         kind == Fld(at, "kind")
         k == stmt.kind
         v == stmt.kind.variant
     IN  Body(<<Call("visit_doc_comments", Fld(at, "docs")),
                Call("visit_span", Fld(at, "span"))>>
              \o CASE v = "Assembly" ->
                        <<Call("visit_stmt_assembly", Fld(kind, "assembly"))>>
                   [] v = "DeclSingle" ->
                        <<Call("visit_variable_definition", Fld(kind, "var"))>>
                   [] v = "DeclMulti" ->
                        Concat([i \in 1..Len(k.vars) |->
                           IfSome("visit_variable_definition",
                                  Elt(Fld(kind, "vars"), i), k.vars[i])])
                        \o <<Call("visit_expr", Fld(kind, "expr"))>>
                   [] v = "Block" -> <<Call("visit_block", Fld(kind, "block"))>>
                   [] v = "Break" -> <<>>
                   [] v = "Continue" -> <<>>
                   [] v = "DoWhile" ->
                        <<Call("visit_block", Fld(kind, "block")),
                          Call("visit_expr", Fld(kind, "expr"))>>
                   [] v = "Emit" ->
                        <<Call("visit_path", Fld(kind, "path")),
                          Call("visit_call_args", Fld(kind, "args"))>>
                   [] v = "Expr" -> <<Call("visit_expr", Fld(kind, "expr"))>>
                   [] v = "For" ->
                        IfSome("visit_stmt", Fld(kind, "init"), k.init)
                        \o IfSome("visit_expr", Fld(kind, "cond"), k.cond)
                        \o IfSome("visit_expr", Fld(kind, "next"), k.next)
                        \o <<Call("visit_stmt", Fld(kind, "body"))>>
                   [] v = "If" ->
                        <<Call("visit_expr", Fld(kind, "cond")),
                          Call("visit_stmt", Fld(kind, "then"))>>
                        \o IfSome("visit_stmt", Fld(kind, "else_"), k.else_)
                   [] v = "Return" -> IfSome("visit_expr", Fld(kind, "expr"), k.expr)
                   [] v = "Revert" ->
                        <<Call("visit_path", Fld(kind, "path")),
                          Call("visit_call_args", Fld(kind, "args"))>>
                   [] v = "Try" -> <<Call("visit_stmt_try", Fld(kind, "try_"))>>
                   [] v = "UncheckedBlock" ->
                        <<Call("visit_block", Fld(kind, "block"))>>
                   [] v = "While" ->
                        <<Call("visit_expr", Fld(kind, "cond")),
                          Call("visit_stmt", Fld(kind, "block"))>>)

visit_stmt_assembly ==
  /\ Invoked("visit_stmt_assembly")
  /\ Body(<<Call("visit_yul_block", Fld(Top.at, "block"))>>)

visit_stmt_try ==
  /\ Invoked("visit_stmt_try")
  /\ LET try_ == Arg
         at == Top.at
     IN  Body(<<Call("visit_expr", Fld(at, "expr")),
                Call("visit_parameter_list", Fld(at, "returns")),
                Call("visit_block", Fld(at, "block"))>>
              \o ForEach("visit_catch_clause", Fld(at, "catch"), try_.catch))

visit_catch_clause ==
  /\ Invoked("visit_catch_clause")
  /\ LET catch == Arg
         at == Top.at
     IN  Body(IfSome("visit_ident", Fld(at, "name"), catch.name)
              \o <<Call("visit_parameter_list", Fld(at, "args")),
                   Call("visit_block", Fld(at, "block"))>>)

visit_block ==
  /\ Invoked("visit_block")
  /\ LET block == Arg
     IN  Body(ForEach("visit_stmt", Top.at, block))

\* visit_expr with the children of the expression visited last to first.
visit_expr_last_first ==
  /\ Invoked("visit_expr")
  /\ LET expr == Arg
         at == Top.at
     IN  Body(<<Call("visit_span", Fld(at, "span"))>>
              \o Reverse(ExprKindFields(expr.kind, Fld(at, "kind"))))

visit_expr ==
  /\ Invoked("visit_expr")
  /\ LET expr == Arg
         at == Top.at
         kind == Fld(at, "kind")
         k == expr.kind
         v == expr.kind.variant
     IN  Body(<<Call("visit_span", Fld(at, "span"))>>
              \o CASE v = "Array" -> ForEach("visit_expr", Fld(kind, "exprs"), k.exprs)
                   [] v = "Assign" ->
                        <<Call("visit_expr", Fld(kind, "lhs")),
                          Call("visit_expr", Fld(kind, "rhs"))>>
                   [] v = "Binary" ->
                        <<Call("visit_expr", Fld(kind, "lhs")),
                          Call("visit_expr", Fld(kind, "rhs"))>>
                   [] v = "Call" ->
                        <<Call("visit_expr", Fld(kind, "lhs")),
                          Call("visit_call_args", Fld(kind, "args"))>>
                   [] v = "CallOptions" ->
                        <<Call("visit_expr", Fld(kind, "lhs")),
                          Call("visit_named_args", Fld(kind, "args"))>>
                   [] v = "Delete" -> <<Call("visit_expr", Fld(kind, "expr"))>>
                   [] v = "Ident" -> <<Call("visit_ident", Fld(kind, "ident"))>>
                   [] v = "Index" ->
                        <<Call("visit_expr", Fld(kind, "lhs"))>>
                        \o (LET ik == Fld(kind, "kind")
                            IN  CASE k.kind.variant = "Index" ->
                                       IfSome("visit_expr", Fld(ik, "expr"), k.kind.expr)
                                  [] k.kind.variant = "Range" ->
                                       IfSome("visit_expr", Fld(ik, "start"), k.kind.start)
                                       \o IfSome("visit_expr", Fld(ik, "end"), k.kind.end))
                   [] v = "Lit" -> <<Call("visit_lit", Fld(kind, "lit"))>>
                   [] v = "Member" ->
                        <<Call("visit_expr", Fld(kind, "expr")),
                          Call("visit_ident", Fld(kind, "member"))>>
                   [] v = "New" -> <<Call("visit_ty", Fld(kind, "ty"))>>
                   [] v = "Payable" -> <<Call("visit_call_args", Fld(kind, "args"))>>
                   [] v = "Ternary" ->
                        <<Call("visit_expr", Fld(kind, "cond")),
                          Call("visit_expr", Fld(kind, "true_")),
                          Call("visit_expr", Fld(kind, "false_"))>>
                   [] v = "Tuple" ->
                        Concat([i \in 1..Len(k.exprs) |->
                           IfSome("visit_expr", Elt(Fld(kind, "exprs"), i), k.exprs[i])])
                   [] v = "TypeCall" -> <<Call("visit_ty", Fld(kind, "ty"))>>
                   [] v = "Type" -> <<Call("visit_ty", Fld(kind, "ty"))>>
                   [] v = "Unary" -> <<Call("visit_expr", Fld(kind, "expr"))>>)

visit_parameter_list ==
  /\ Invoked("visit_parameter_list")
  /\ LET list == Arg
     IN  Body(ForEach("visit_variable_definition", Top.at, list))

visit_lit ==
  /\ Invoked("visit_lit")
  /\ Body(<<Call("visit_span", Fld(Top.at, "span"))>>)

visit_yul_stmt ==
  /\ Invoked("visit_yul_stmt")
  /\ LET stmt == Arg
         at == Top.at
         kind == Fld(at, "kind")
         k == stmt.kind
         v == stmt.kind.variant
     IN  Body(<<Call("visit_doc_comments", Fld(at, "docs")),
                Call("visit_span", Fld(at, "span"))>>
              \o CASE v = "Block" -> <<Call("visit_yul_block", Fld(kind, "block"))>>
                   [] v = "AssignSingle" ->
                        <<Call("visit_path", Fld(kind, "path")),
                          Call("visit_yul_expr", Fld(kind, "expr"))>>
                   [] v = "AssignMulti" ->
                        ForEach("visit_path", Fld(kind, "paths"), k.paths)
                        \o <<Call("visit_yul_expr_call", Fld(kind, "call"))>>
                   [] v = "Expr" -> <<Call("visit_yul_expr_call", Fld(kind, "call"))>>
                   [] v = "If" ->
                        <<Call("visit_yul_expr", Fld(kind, "expr")),
                          Call("visit_yul_block", Fld(kind, "block"))>>
                   [] v = "For" ->
                        <<Call("visit_yul_block", Fld(kind, "init")),
                          Call("visit_yul_expr", Fld(kind, "cond")),
                          Call("visit_yul_block", Fld(kind, "step")),
                          Call("visit_yul_block", Fld(kind, "body"))>>
                   [] v = "Switch" ->
                        <<Call("visit_yul_stmt_switch", Fld(kind, "switch"))>>
                   [] v = "Leave" -> <<>>
                   [] v = "Break" -> <<>>
                   [] v = "Continue" -> <<>>
                   [] v = "FunctionDef" ->
                        <<Call("visit_yul_function", Fld(kind, "function"))>>
                   [] v = "VarDecl" ->
                        ForEach("visit_ident", Fld(kind, "idents"), k.idents)
                        \o IfSome("visit_yul_expr", Fld(kind, "expr"), k.expr))

visit_yul_block ==
  /\ Invoked("visit_yul_block")
  /\ LET block == Arg
     IN  Body(ForEach("visit_yul_stmt", Top.at, block))

visit_yul_stmt_switch ==
  /\ Invoked("visit_yul_stmt_switch")
  /\ LET switch == Arg
         at == Top.at
     IN  Body(<<Call("visit_yul_expr", Fld(at, "selector"))>>
              \o ForEach("visit_yul_stmt_case", Fld(at, "branches"), switch.branches)
              \o IfSome("visit_yul_block", Fld(at, "default_case"), switch.default_case))

visit_yul_stmt_case ==
  /\ Invoked("visit_yul_stmt_case")
  /\ LET at == Top.at
     IN  Body(<<Call("visit_lit", Fld(at, "constant")),
                Call("visit_yul_block", Fld(at, "body"))>>)

\* visit_yul_function as it would be if the body of a Yul function were walked
\* as a block of the outer grammar.
visit_yul_function_outer_body ==
  /\ Invoked("visit_yul_function")
  /\ LET function == Arg
         at == Top.at
     IN  Body(<<Call("visit_ident", Fld(at, "name"))>>
              \o ForEach("visit_ident", Fld(at, "parameters"), function.parameters)
              \o ForEach("visit_ident", Fld(at, "returns"), function.returns)
              \o <<Call("visit_block", Fld(at, "body"))>>)

visit_yul_function ==
  /\ Invoked("visit_yul_function")
  /\ LET function == Arg
         at == Top.at
     IN  Body(<<Call("visit_ident", Fld(at, "name"))>>
              \o ForEach("visit_ident", Fld(at, "parameters"), function.parameters)
              \o ForEach("visit_ident", Fld(at, "returns"), function.returns)
              \o <<Call("visit_yul_block", Fld(at, "body"))>>)

visit_yul_expr ==
  /\ Invoked("visit_yul_expr")
  /\ LET expr == Arg
         at == Top.at
         kind == Fld(at, "kind")
         v == expr.kind.variant
     IN  Body(<<Call("visit_span", Fld(at, "span"))>>
              \o CASE v = "Path" -> <<Call("visit_path", Fld(kind, "path"))>>
                   [] v = "Call" -> <<Call("visit_yul_expr_call", Fld(kind, "call"))>>
                   [] v = "Lit" -> <<Call("visit_lit", Fld(kind, "lit"))>>)

visit_yul_expr_call ==
  /\ Invoked("visit_yul_expr_call")
  /\ LET call == Arg
         at == Top.at
     IN  Body(<<Call("visit_ident", Fld(at, "name"))>>
              \o ForEach("visit_yul_expr", Fld(at, "arguments"), call.arguments))

visit_doc_comments ==
  /\ Invoked("visit_doc_comments")
  /\ LET doc_comments == Arg
     IN  Body(ForEach("visit_doc_comment", Top.at, doc_comments))

visit_doc_comment ==
  /\ Invoked("visit_doc_comment")
  /\ Body(<<Call("visit_span", Fld(Top.at, "span"))>>)

visit_path ==
  /\ Invoked("visit_path")
  /\ LET path == Arg
         idents == IF visitor = "VisitMut" THEN segments_mut(path) ELSE segments(path)
     IN  Body(ForEach("visit_ident", Fld(Top.at, "segments"), idents))

visit_ident ==
  /\ Invoked("visit_ident")
  /\ Body(<<Call("visit_span", Fld(Top.at, "span"))>>)

\* The value v with the part at address at replaced by x.
RECURSIVE Assign(_, _, _)
Assign(v, at, x) ==
  IF at = <<>>
    THEN x
    ELSE LET s == Head(at)
             k == IF IxOf(s) = 0 THEN s ELSE IxOf(s)
         IN  [v EXCEPT ![k] = Assign(v[k], Tail(at), x)]

\* visit_span as it would be if visit_span_mut reset the span it is given
\* (`*span = Span::DUMMY`).
visit_span_mut_resets ==
  /\ Invoked("visit_span")
  /\ stack' = Tail(stack)
  /\ trace' = [trace EXCEPT ![visitor] = Append(@, Top)]
  /\ tree' = IF visitor = "VisitMut" THEN Assign(tree, Top.at, Span(0, 0)) ELSE tree
  /\ UNCHANGED <<visitor, sessionVars, cliVars>>

visit_span ==
  /\ Invoked("visit_span")
  /\ Body(<<>>)

(***************************************************************************)
(* The trees that are walked: what a parser hands to the visitors.  Every  *)
(* generator takes the span s of the text the node is parsed from and puts *)
(* the node's children into slots of s, so parents cover their children    *)
(* and siblings follow each other in source order.                         *)
(***************************************************************************)
\* All lists <<x_1, ..., x_n>> with x_k in M(k).
ListsOfLen(n, M(_)) ==
  {l \in [1..n -> UNION {M(k) : k \in 1..n}] : \A k \in 1..n : l[k] \in M(k)}

\* All lists of at most MaxLen elements, element k drawn from M(k).
Lists(M(_)) == UNION {ListsOfLen(n, M) : n \in 0..MaxLen}

Options(S) == {None} \cup {Some(x) : x \in S}

Paths(s) ==
  {Path(<<Ident("T", s)>>),
   Path(<<Ident("L", Sub(s, 0)), Ident("T", Sub(s, 1))>>)}

Docs(s) == {<<>>, <<DocComment(Sub(s, 0))>>,
            <<DocComment(Sub(s, 0)), DocComment(Sub(s, 1))>>}

ExprIdent(name, s) == Expr(s, [variant |-> "Ident", ident |-> Ident(name, s)])

ExprLit(s) == Expr(s, [variant |-> "Lit", lit |-> Lit(s), sub |-> None])

ExprBinary(s, lhs, rhs) ==
  Expr(s, [variant |-> "Binary", lhs |-> lhs, op |-> "+", rhs |-> rhs])

\* Expressions without sub-expressions.
Exprs0(s) == {ExprIdent("a", s), ExprLit(s)}

ElementaryKinds ==
  {"Address", "Bool", "String", "Bytes", "Fixed", "UFixed", "Int", "UInt",
   "FixedBytes"}

Tys0(s) == {Ty(s, TyElementary("UInt")), Ty(s, TyCustom(Path(<<Ident("T", s)>>)))}

\* Parameters and struct fields: `T`, `uint x`.
Params(s) ==
  {VariableDefinition(Ty(Sub(s, 0), TyElementary("UInt")), None, None),
   VariableDefinition(Ty(Sub(s, 0), TyCustom(Path(<<Ident("T", Sub(s, 0))>>))),
                      Some(Ident("x", Sub(s, 1))), None)}

ParameterLists(s) == Lists(LAMBDA k : Params(Sub(s, k)))

NamedArgLists(s) ==
  Lists(LAMBDA k : {NamedArg(Ident("n", Sub(Sub(s, k), 0)), value) :
                      value \in Exprs0(Sub(Sub(s, k), 1))})

CallArgses(s) ==
  {CallArgsNamed(named) : named \in NamedArgLists(s)}
  \cup {CallArgsUnnamed(unnamed) : unnamed \in Lists(LAMBDA k : Exprs0(Sub(s, k)))}

\* Every expression kind over sub-expressions without sub-expressions.
Exprs1(s) ==
  Exprs0(s)
  \cup {Expr(s, [variant |-> "Array", exprs |-> l]) :
          l \in Lists(LAMBDA k : Exprs0(Sub(s, k)))}
  \cup {Expr(s, [variant |-> "Assign", lhs |-> l, op |-> None, rhs |-> r]) :
          l \in Exprs0(Sub(s, 0)), r \in Exprs0(Sub(s, 1))}
  \cup {ExprBinary(s, l, r) : l \in Exprs0(Sub(s, 0)), r \in Exprs0(Sub(s, 1))}
  \cup {Expr(s, [variant |-> "Call", lhs |-> ExprIdent("f", Sub(s, 0)), args |-> a]) :
          a \in CallArgses(Sub(s, 1))}
  \cup {Expr(s, [variant |-> "CallOptions", lhs |-> ExprIdent("f", Sub(s, 0)),
                 args |-> a]) : a \in NamedArgLists(Sub(s, 1))}
  \cup {Expr(s, [variant |-> "Delete", expr |-> e]) : e \in Exprs0(Sub(s, 1))}
  \cup {Expr(s, [variant |-> "Index", lhs |-> ExprIdent("f", Sub(s, 0)),
                 kind |-> [variant |-> "Index", expr |-> e]]) :
          e \in Options(Exprs0(Sub(s, 1)))}
  \cup {Expr(s, [variant |-> "Index", lhs |-> ExprIdent("f", Sub(s, 0)),
                 kind |-> [variant |-> "Range", start |-> b, end |-> e]]) :
          b \in Options(Exprs0(Sub(s, 1))), e \in Options(Exprs0(Sub(s, 2)))}
  \cup {Expr(s, [variant |-> "Member", expr |-> e, member |-> Ident("m", Sub(s, 1))]) :
          e \in Exprs0(Sub(s, 0))}
  \cup {Expr(s, [variant |-> v, ty |-> ty]) :
          v \in {"New", "TypeCall", "Type"}, ty \in Tys0(Sub(s, 1))}
  \cup {Expr(s, [variant |-> "Payable", args |-> a]) : a \in CallArgses(Sub(s, 1))}
  \cup {Expr(s, [variant |-> "Ternary", cond |-> c, true_ |-> t, false_ |-> f]) :
          c \in Exprs0(Sub(s, 0)), t \in Exprs0(Sub(s, 1)), f \in Exprs0(Sub(s, 2))}
  \cup {Expr(s, [variant |-> "Tuple", exprs |-> l]) :
          l \in Lists(LAMBDA k : Options(Exprs0(Sub(s, k))))}
  \cup {Expr(s, [variant |-> "Unary", op |-> "-", expr |-> e]) :
          e \in Exprs0(Sub(s, 1))}

\* Operands of the deeper expressions: a leaf and one of each shape of sub-tree.
Operands(s) ==
  {ExprIdent("a", s), ExprLit(s),
   ExprBinary(s, ExprIdent("b", Sub(s, 0)), ExprIdent("c", Sub(s, 1))),
   Expr(s, [variant |-> "Unary", op |-> "-", expr |-> ExprLit(Sub(s, 1))]),
   Expr(s, [variant |-> "Call", lhs |-> ExprIdent("f", Sub(s, 0)),
            args |-> CallArgsUnnamed(<<ExprIdent("x", Sub(Sub(s, 1), 0)),
                                       ExprLit(Sub(Sub(s, 1), 1))>>)]),
   Expr(s, [variant |-> "New", ty |-> Ty(Sub(s, 1), TyElementary("UInt"))])}

\* Binary expressions over operands that are sub-trees, `a + b * c` among them,
\* and binary expressions below another expression.
Exprs2(s) ==
  {ExprBinary(s, l, r) : l \in Operands(Sub(s, 0)), r \in Operands(Sub(s, 1))}
  \cup {ExprBinary(s, ExprBinary(Sub(s, 0), l, ExprLit(Sub(Sub(s, 0), 1))),
                   ExprBinary(Sub(s, 1), ExprLit(Sub(Sub(s, 1), 0)), r)) :
          l \in Operands(Sub(Sub(s, 0), 0)), r \in Operands(Sub(Sub(s, 1), 1))}
  \cup {Expr(s, [variant |-> "Ternary", cond |-> c,
                 true_ |-> ExprIdent("t", Sub(s, 1)), false_ |-> f]) :
          c \in Operands(Sub(s, 0)), f \in Operands(Sub(s, 2))}

Exprs(s) == Exprs1(s) \cup Exprs2(s)

Modifiers(s) ==
  {Modifier(Path(<<Ident("M", Sub(s, 0))>>), args) :
     args \in {CallArgsUnnamed(<<>>), CallArgsUnnamed(<<ExprLit(Sub(s, 1))>>)}}

ModifierLists(s) == Lists(LAMBDA k : Modifiers(Sub(s, k)))

FunctionHeaders(s) ==
  {FunctionHeader(name, <<p>>, m, r) :
     name \in Options({Ident("f", Sub(s, 0))}),
     p \in {VariableDefinition(Ty(Sub(Sub(s, 1), 0), TyElementary("UInt")),
                               Some(Ident("x", Sub(Sub(s, 1), 1))), None)},
     m \in ModifierLists(Sub(s, 2)),
     r \in {<<>>, <<VariableDefinition(Ty(Sub(s, 3), TyElementary("Bool")), None,
                                       None)>>}}

\* Every type kind.
Tys(s) ==
  {Ty(s, TyElementary(v)) : v \in ElementaryKinds}
  \cup {Ty(s, TyArray(e, sz)) :
          e \in Tys0(Sub(s, 0)), sz \in Options(Exprs0(Sub(s, 1)))}
  \cup {Ty(s, TyArray(Ty(Sub(s, 0), TyArray(e, sz)), sz)) :
          e \in Tys0(Sub(Sub(s, 0), 0)), sz \in Options({ExprLit(Sub(s, 1))})}
  \cup {Ty(s, TyFunction(h)) :
          h \in {FunctionHeader(None, p, <<>>, r) :
                   p \in ParameterLists(Sub(s, 1)),
                   r \in {<<>>, <<VariableDefinition(
                                    Ty(Sub(s, 3), TyElementary("Bool")), None, None)>>}}}
  \cup {Ty(s, TyMapping(k, kn, v, vn)) :
          k \in Tys0(Sub(s, 0)), kn \in Options({Ident("k", Sub(s, 1))}),
          v \in Tys0(Sub(s, 2)), vn \in Options({Ident("v", Sub(s, 3))})}
  \cup {Ty(s, TyCustom(p)) : p \in Paths(s)}

\* Variables of every type, and variables initialized with every expression.
VariableDefinitions(s) ==
  {VariableDefinition(ty, Some(Ident("x", Sub(s, 1))), None) : ty \in Tys(Sub(s, 0))}
  \cup {VariableDefinition(Ty(Sub(s, 0), TyElementary("UInt")),
                           Some(Ident("x", Sub(s, 1))), Some(init)) :
          init \in Exprs(Sub(s, 2))}
  \cup {VariableDefinition(Ty(Sub(s, 0), TyElementary("UInt")), None,
                           Some(ExprLit(Sub(s, 2))))}

\* Local variable declarations.
Locals(s) ==
  Params(s)
  \cup {VariableDefinition(Ty(Sub(s, 0), TyElementary("UInt")),
                           Some(Ident("x", Sub(s, 1))), Some(init)) :
          init \in Operands(Sub(s, 2))}

StmtExpr(s, e) == Stmt(<<>>, s, [variant |-> "Expr", expr |-> e])

\* Statements without sub-statements, and a block of them.
Stmts0(s) ==
  {StmtExpr(s, ExprIdent("a", s)),
   Stmt(<<>>, s, [variant |-> "Break"]),
   Stmt(<<>>, s, [variant |-> "Block",
                  block |-> <<StmtExpr(Sub(s, 0), ExprLit(Sub(s, 0))),
                              Stmt(<<>>, Sub(s, 1), [variant |-> "Continue"])>>])}

Blocks(s) == Lists(LAMBDA k : Stmts0(Sub(s, k)))

\* Conditions and tried expressions.
Conds(s) ==
  {ExprIdent("c", s),
   ExprBinary(s, ExprIdent("a", Sub(s, 0)), ExprLit(Sub(s, 1))),
   Expr(s, [variant |-> "Call", lhs |-> ExprIdent("f", Sub(s, 0)),
            args |-> CallArgsUnnamed(<<ExprIdent("x", Sub(s, 1))>>)])}

CatchClauses(s) ==
  {CatchClause(None, <<>>, <<>>),
   CatchClause(Some(Ident("Error", Sub(s, 0))),
               <<VariableDefinition(Ty(Sub(Sub(s, 1), 0), TyElementary("String")),
                                    Some(Ident("reason", Sub(Sub(s, 1), 1))), None)>>,
               <<StmtExpr(Sub(s, 2), ExprIdent("a", Sub(s, 2)))>>),
   CatchClause(None,
               <<VariableDefinition(Ty(Sub(s, 1), TyElementary("Bytes")), None, None)>>,
               <<Stmt(<<>>, Sub(s, 2), [variant |-> "Break"]),
                 StmtExpr(Sub(s, 3), ExprLit(Sub(s, 3)))>>)}

StmtTrys(s) ==
  {StmtTry(e, r, b, c) :
     e \in {ExprIdent("c", Sub(s, 0)),
            Expr(Sub(s, 0), [variant |-> "Call", lhs |-> ExprIdent("f", Sub(Sub(s, 0), 0)),
                             args |-> CallArgsUnnamed(<<ExprLit(Sub(Sub(s, 0), 1))>>)])},
     r \in {<<>>, <<VariableDefinition(Ty(Sub(Sub(s, 1), 0), TyElementary("UInt")),
                                       Some(Ident("r", Sub(Sub(s, 1), 1))), None)>>},
     b \in {<<>>, <<StmtExpr(Sub(Sub(s, 2), 0), ExprIdent("a", Sub(Sub(s, 2), 0))),
                    Stmt(<<>>, Sub(Sub(s, 2), 1), [variant |-> "Break"])>>},
     c \in Lists(LAMBDA k : CatchClauses(Sub(Sub(s, 3), k)))}

\* The control-flow statements over conditions and bodies that are sub-trees.
StmtsControl(s) ==
  {Stmt(<<>>, s, [variant |-> "If", cond |-> c, then |-> t, else_ |-> e]) :
     c \in Conds(Sub(s, 0)), t \in Stmts0(Sub(s, 1)), e \in Options(Stmts0(Sub(s, 2)))}
  \cup {Stmt(<<>>, s, [variant |-> "If", cond |-> ExprIdent("c", Sub(s, 0)),
                       then |-> Stmt(<<>>, Sub(s, 1),
                                     [variant |-> "If", cond |-> c, then |-> t,
                                      else_ |-> e]),
                       else_ |-> Some(t)]) :
          c \in Conds(Sub(Sub(s, 1), 0)), t \in Stmts0(Sub(Sub(s, 1), 1)),
          e \in Options(Stmts0(Sub(Sub(s, 1), 2)))}
  \cup {Stmt(<<>>, s, [variant |-> "While", cond |-> c, block |-> b]) :
          c \in Conds(Sub(s, 0)), b \in Stmts0(Sub(s, 1))}
  \cup {Stmt(<<>>, s, [variant |-> "For", init |-> i, cond |-> c, next |-> n,
                       body |-> b]) :
          i \in Options({StmtExpr(Sub(s, 0), ExprIdent("i", Sub(s, 0))),
                         Stmt(<<>>, Sub(s, 0),
                              [variant |-> "DeclSingle",
                               var |-> VariableDefinition(
                                  Ty(Sub(Sub(s, 0), 0), TyElementary("UInt")),
                                  Some(Ident("i", Sub(Sub(s, 0), 1))),
                                  Some(ExprLit(Sub(Sub(s, 0), 2))))])}),
          c \in Options(Conds(Sub(s, 1))),
          n \in Options({ExprIdent("n", Sub(s, 2))}),
          b \in Stmts0(Sub(s, 3))}
  \cup {Stmt(<<>>, s, [variant |-> "Try", try_ |-> t]) : t \in StmtTrys(s)}

YulLit(s) == YulExpr(s, [variant |-> "Lit", lit |-> Lit(s)])

YulPath(s) == YulExpr(s, [variant |-> "Path", path |-> Path(<<Ident("x", s)>>)])

YulExprCalls(s) ==
  {YulExprCall(Ident("add", Sub(s, 0)), a) :
     a \in Lists(LAMBDA k : {YulLit(Sub(s, k)), YulPath(Sub(s, k))})}

YulExprs(s) ==
  {YulLit(s), YulPath(s)}
  \cup {YulExpr(s, [variant |-> "Call", call |-> c]) : c \in YulExprCalls(s)}

YulStmts0(s) ==
  {YulStmt(<<>>, s, [variant |-> "Leave"]),
   YulStmt(<<>>, s, [variant |-> "Expr",
                     call |-> YulExprCall(Ident("pop", Sub(s, 0)), <<YulLit(Sub(s, 1))>>)])}

YulBlocks(s) == Lists(LAMBDA k : YulStmts0(Sub(s, k)))

YulIdents(s) == Lists(LAMBDA k : {Ident("y", Sub(s, k))})

\* Every Yul statement kind.
YulStmts(s) ==
  {YulStmt(d, s, [variant |-> v]) : d \in Docs(s), v \in {"Leave", "Break", "Continue"}}
  \cup {YulStmt(<<>>, s, [variant |-> "Block", block |-> b]) : b \in YulBlocks(s)}
  \cup {YulStmt(<<>>, s, [variant |-> "AssignSingle",
                          path |-> Path(<<Ident("x", Sub(s, 0))>>), expr |-> e]) :
          e \in YulExprs(Sub(s, 1))}
  \cup {YulStmt(<<>>, s, [variant |-> "AssignMulti", paths |-> p, call |-> c]) :
          p \in Lists(LAMBDA k : Paths(Sub(Sub(s, 0), k))),
          c \in {YulExprCall(Ident("f", Sub(s, 1)), <<>>)}}
  \cup {YulStmt(<<>>, s, [variant |-> "Expr", call |-> c]) : c \in YulExprCalls(s)}
  \cup {YulStmt(<<>>, s, [variant |-> "If", expr |-> e, block |-> b]) :
          e \in {YulLit(Sub(s, 0)), YulPath(Sub(s, 0))}, b \in YulBlocks(Sub(s, 1))}
  \cup {YulStmt(<<>>, s, [variant |-> "For", init |-> i, cond |-> YulPath(Sub(s, 1)),
                          step |-> st, body |-> b]) :
          i \in {<<>>, <<YulStmt(<<>>, Sub(s, 0), [variant |-> "Leave"])>>},
          st \in {<<>>, <<YulStmt(<<>>, Sub(s, 2), [variant |-> "Continue"])>>},
          b \in {<<>>, <<YulStmt(<<>>, Sub(s, 3), [variant |-> "Break"])>>}}
  \cup {YulStmt(<<>>, s, [variant |-> "Switch",
                          switch |-> YulStmtSwitch(YulPath(Sub(s, 0)), br, df)]) :
          br \in Lists(LAMBDA k : {YulStmtSwitchCase(Lit(Sub(Sub(s, k), 0)), b) :
                                     b \in {<<>>, <<YulStmt(<<>>, Sub(Sub(s, k), 1),
                                                            [variant |-> "Break"])>>}}),
          df \in Options({<<>>, <<YulStmt(<<>>, Sub(s, 3), [variant |-> "Leave"])>>})}
  \cup {YulStmt(<<>>, s, [variant |-> "FunctionDef",
                          function |-> YulFunction(Ident("g", Sub(s, 0)), p, r, b)]) :
          p \in YulIdents(Sub(s, 1)), r \in YulIdents(Sub(s, 2)),
          b \in {<<>>, <<YulStmt(<<>>, Sub(s, 3), [variant |-> "Leave"])>>}}
  \cup {YulStmt(<<>>, s, [variant |-> "VarDecl", idents |-> i, expr |-> e]) :
          i \in YulIdents(Sub(s, 0)), e \in Options({YulLit(Sub(s, 3))})}

\* Every statement kind.
Stmts(s) ==
  StmtsControl(s)
  \cup {Stmt(d, s, [variant |-> v]) : d \in Docs(s), v \in {"Break", "Continue"}}
  \cup {Stmt(<<>>, s, [variant |-> "Assembly", assembly |-> StmtAssembly(<<y>>)]) :
          y \in YulStmts(Sub(s, 1))}
  \cup {Stmt(<<>>, s, [variant |-> "Assembly", assembly |-> StmtAssembly(b)]) :
          b \in YulBlocks(Sub(s, 1))}
  \cup {Stmt(<<>>, s, [variant |-> "DeclSingle", var |-> var]) :
          var \in Locals(s)}
  \cup {Stmt(<<>>, s, [variant |-> "DeclMulti", vars |-> l,
                       expr |-> ExprIdent("t", Sub(s, 3))]) :
          l \in Lists(LAMBDA k : Options({VariableDefinition(
                         Ty(Sub(Sub(s, k), 0), TyElementary("UInt")),
                         Some(Ident("x", Sub(Sub(s, k), 1))), None)}))}
  \cup {Stmt(<<>>, s, [variant |-> v, block |-> b]) :
          v \in {"Block", "UncheckedBlock"}, b \in Blocks(s)}
  \cup {Stmt(<<>>, s, [variant |-> "DoWhile", block |-> b, expr |-> e]) :
          b \in Blocks(Sub(s, 0)), e \in Conds(Sub(s, 3))}
  \cup {Stmt(<<>>, s, [variant |-> v, path |-> p, args |-> a]) :
          v \in {"Emit", "Revert"}, p \in Paths(Sub(s, 0)), a \in CallArgses(Sub(s, 1))}
  \cup {Stmt(d, s, [variant |-> "Expr", expr |-> e]) :
          d \in Docs(Sub(s, 0)), e \in Operands(Sub(s, 1))}
  \cup {Stmt(<<>>, s, [variant |-> "Return", expr |-> e]) : e \in Options(Conds(s))}

\* function f() { stmt }
ItemFunctionWith(s, body) ==
  Item(<<>>, s, ItemKind("Function",
       ItemFunction(FunctionHeader(Some(Ident("f", Sub(s, 0))), <<>>, <<>>, <<>>),
                    body)))

\* Items of a contract body or a source unit, without items of their own.
Items0(s) ==
  {Item(<<>>, s, ItemKind("Variable",
        VariableDefinition(Ty(Sub(s, 0), TyElementary("UInt")),
                           Some(Ident("x", Sub(s, 1))), None))),
   ItemFunctionWith(s, Some(<<StmtExpr(Sub(s, 3), ExprIdent("a", Sub(s, 3)))>>))}

ItemContracts(s) ==
  {ItemContract(Ident("C", Sub(s, 0)), i, b) :
     i \in ModifierLists(Sub(s, 1)),
     b \in Lists(LAMBDA k : Items0(Sub(Sub(s, 2), k)))}
  \cup {ItemContract(Ident("C", Sub(s, 0)), i,
                     <<Item(<<>>, Sub(s, 2), ItemKind("Contract", c))>> \o b) :
          i \in ModifierLists(Sub(s, 1)),
          c \in {ItemContract(Ident("D", Sub(Sub(s, 2), 0)), j, <<>>) :
                   j \in ModifierLists(Sub(Sub(s, 2), 1))},
          b \in {<<>>, <<ItemFunctionWith(Sub(s, 3), None)>>}}

ImportItemses(s) ==
  {ImportItems(v, a) : v \in {"Plain", "Glob"}, a \in Options({Ident("A", s)})}
  \cup {ImportAliases(l) :
          l \in Lists(LAMBDA k : {<<Ident("I", Sub(Sub(s, k), 0)), a>> :
                                    a \in Options({Ident("A", Sub(Sub(s, k), 1))})})}

UsingLists(s) ==
  {UsingSingle(p) : p \in Paths(s)}
  \cup {UsingMultiple(l) : l \in Lists(LAMBDA k : {<<p, None>> : p \in Paths(Sub(s, k))})}

\* Every item kind.
ItemKinds(s) ==
  {ItemKind("Pragma", PragmaDirective)}
  \cup {ItemKind("Import", ImportDirective(LitStr(Sub(s, 0)), i)) :
          i \in ImportItemses(Sub(s, 1))}
  \cup {ItemKind("Using", UsingDirective(l, ty)) :
          l \in UsingLists(Sub(s, 0)), ty \in Options(Tys0(Sub(s, 1)))}
  \cup {ItemKind("Contract", c) : c \in ItemContracts(s)}
  \cup {ItemKind("Function", ItemFunction(h, None)) : h \in FunctionHeaders(s)}
  \cup {ItemKind("Function",
                 ItemFunction(FunctionHeader(Some(Ident("f", Sub(s, 0))), <<>>, <<>>,
                                             <<>>), Some(b))) :
          b \in {<<>>} \cup {<<st>> : st \in Stmts(Sub(s, 3))}}
  \cup {ItemKind("Variable", var) : var \in VariableDefinitions(s)}
  \cup {ItemKind("Struct", ItemStruct(Ident("S", Sub(s, 0)), f)) :
          f \in ParameterLists(Sub(s, 1))}
  \cup {ItemKind("Enum", ItemEnum(Ident("E", Sub(s, 0)), l)) :
          l \in Lists(LAMBDA k : {Ident("V", Sub(Sub(s, 1), k))})}
  \cup {ItemKind("Udvt", ItemUdvt(Ident("U", Sub(s, 0)), ty)) : ty \in Tys0(Sub(s, 1))}
  \cup {ItemKind("Error", ItemError(Ident("Err", Sub(s, 0)), p)) :
          p \in ParameterLists(Sub(s, 1))}
  \cup {ItemKind("Event", ItemEvent(Ident("Ev", Sub(s, 0)), p)) :
          p \in ParameterLists(Sub(s, 1))}

\* Length of the source text the spans point into.
FileLen == 65536

File == Span(0, FileLen)

\* The source units: every item alone, documented items, and lists of items.
SourceUnits ==
  {SourceUnit(<<Item(<<>>, File, k)>>) : k \in ItemKinds(File)}
  \cup {SourceUnit(<<Item(d, File, ItemKind("Pragma", PragmaDirective))>>) :
          d \in Docs(File)}
  \cup {SourceUnit(l) : l \in Lists(LAMBDA k : Items0(Sub(File, k)))}

\* No command line is being parsed.
NoCli ==
  /\ argv = <<>>
  /\ cli_args = <<>>
  /\ populated = <<>>
  /\ from = <<>>
  /\ import_map = <<>>

\* No thread has called enter.
NoThread ==
  /\ frames = <<>>
  /\ SESSION_GLOBALS = 0
  /\ sessions = {}
  /\ created = 0
  /\ entered = 0
  /\ panicking = "none"
  /\ log = <<>>

(***************************************************************************)
(* The two walks of one tree: Visit from visit_source_unit, then VisitMut  *)
(* from visit_source_unit_mut with no method overridden.                   *)
(***************************************************************************)
InitVisit ==
  /\ tree \in SourceUnits
  /\ visitor = "Visit"
  /\ stack = <<Call("visit_source_unit", <<>>)>>
  /\ trace = [Visit |-> <<>>, VisitMut |-> <<>>]
  /\ NoThread
  /\ NoCli

\* The walk has returned: the mutating walk starts on the same tree, or both
\* walks are over.
walk_returns ==
  /\ visitor \in {"Visit", "VisitMut"}
  /\ stack = <<>>
  /\ IF visitor = "Visit"
       THEN /\ visitor' = "VisitMut"
            /\ stack' = <<Call("visit_source_unit", <<>>)>>
       ELSE /\ visitor' = "done"
            /\ stack' = <<>>
  /\ UNCHANGED <<tree, trace, sessionVars, cliVars>>

NextVisit ==
  \/ visit_source_unit \/ visit_item \/ visit_pragma_directive
  \/ visit_import_directive \/ visit_using_directive \/ visit_item_contract
  \/ visit_item_function \/ visit_item_struct \/ visit_item_enum
  \/ visit_item_udvt \/ visit_item_error \/ visit_item_event
  \/ visit_variable_definition \/ visit_ty \/ visit_function_header
  \/ visit_modifier \/ visit_call_args \/ visit_named_args \/ visit_stmt
  \/ visit_stmt_assembly \/ visit_stmt_try \/ visit_catch_clause
  \/ visit_block \/ visit_expr \/ visit_parameter_list \/ visit_lit
  \/ visit_yul_stmt \/ visit_yul_block \/ visit_yul_stmt_switch
  \/ visit_yul_stmt_case \/ visit_yul_function \/ visit_yul_expr
  \/ visit_yul_expr_call \/ visit_doc_comments \/ visit_doc_comment
  \/ visit_path \/ visit_ident \/ visit_span
  \/ walk_returns

SpecVisit == InitVisit /\ [][NextVisit]_vars

(***************************************************************************)
(* Properties of the walks.                                                *)
(***************************************************************************)
Visitors == {"Visit", "VisitMut"}

\* The walk of the running visitor has returned.
Returned == stack = <<>>

\* The spans passed to visit_span (visit_span_mut) by visitor v, in call order.
SpansVisited(v) ==
  LET calls == SelectSeq(trace[v], LAMBDA e : e.m = "visit_span")
  IN  [i \in 1..Len(calls) |-> Deref(tree, calls[i].at)]

\* The positions in tr of the calls on the node at address p and on the nodes below.
CallsUnder(tr, p) == {i \in 1..Len(tr) : Under(p, tr[i].at)}

\* Every call on a node at or below a comes before every call on a node at or below b.
Before(tr, a, b) ==
  \A i \in CallsUnder(tr, a) : \A j \in CallsUnder(tr, b) : i < j

Called(tr, m, at) == \E i \in 1..Len(tr) : tr[i] = Call(m, at)

\* The addresses of the nodes method m was called on.
CalledOn(tr, m) == {tr[i].at : i \in {j \in 1..Len(tr) : tr[j].m = m}}

C3_EveryNodeVisited ==
  visitor = "done" =>
    \A v \in Visitors : Nodes(tree, "visit_source_unit", <<>>) \subseteq Range(trace[v])

\* The visited expressions of variant v, statements of variant v, ...
VariantOn(tr, m, v) == {p \in CalledOn(tr, m) : Deref(tree, p).kind.variant = v}

Kind(p, f) == Fld(Fld(p, "kind"), f)

\* The source `a + b * c`, parsed from the text that s covers.
ABC(s) ==
  ExprBinary(s, ExprIdent("a", Sub(s, 0)),
             ExprBinary(Sub(s, 1), ExprIdent("b", Sub(Sub(s, 1), 0)),
                        ExprIdent("c", Sub(Sub(s, 1), 1))))

\* The names of the identifiers passed to visit_ident below address p, in call order.
IdentsUnder(tr, p) ==
  LET calls == SelectSeq(tr, LAMBDA e : e.m = "visit_ident" /\ Under(p, e.at))
  IN  [i \in 1..Len(calls) |-> Deref(tree, calls[i].at).name]

\* C4: visit_expr on a Binary expression visits both operands, and makes every
\* call on the left operand's sub-tree before any call on the right operand's;
\* in `a + b * c` the identifiers are visited in the order a, b, c, and a is
\* visited before the span of `b * c`.
C4_BinaryLeftBeforeRight ==
  Returned =>
    \A v \in Visitors :
      LET tr == trace[v]
      IN  \A p \in VariantOn(tr, "visit_expr", "Binary") :
            /\ Called(tr, "visit_expr", Kind(p, "lhs"))
            /\ Called(tr, "visit_expr", Kind(p, "rhs"))
            /\ Before(tr, Kind(p, "lhs"), Kind(p, "rhs"))
            /\ Deref(tree, p) = ABC(Deref(tree, p).span) =>
                 /\ IdentsUnder(tr, p) = <<"a", "b", "c">>
                 /\ Before(tr, Kind(p, "lhs"), Fld(Kind(p, "rhs"), "span"))

\* Both walks of `a + b * c` are over.
C4_Witness ==
  /\ visitor = "done"
  /\ \E p \in VariantOn(trace["VisitMut"], "visit_expr", "Binary") :
       Deref(tree, p) = ABC(Deref(tree, p).span)

\* The calls on the nodes of each address of as come before the calls on the
\* nodes of the addresses after it in as.
InOrder(tr, as) ==
  \A i, j \in 1..Len(as) : i < j => Before(tr, as[i], as[j])

\* C5: if, while, for and try statements: the condition / init / tried
\* expression is visited before the body (for: init, then cond, then the body),
\* the body before the else branch or the catch clauses, the catch clauses in
\* declaration order.
C5_ControlFlowOrder ==
  Returned =>
    \A v \in Visitors :
      LET tr == trace[v]
      IN  /\ \A p \in VariantOn(tr, "visit_stmt", "If") :
                /\ Called(tr, "visit_expr", Kind(p, "cond"))
                /\ Called(tr, "visit_stmt", Kind(p, "then"))
                /\ Len(Deref(tree, p).kind.else_) = 1 =>
                     Called(tr, "visit_stmt", Elt(Kind(p, "else_"), 1))
                /\ InOrder(tr, <<Kind(p, "cond"), Kind(p, "then"), Kind(p, "else_")>>)
          /\ \A p \in VariantOn(tr, "visit_stmt", "While") :
                /\ Called(tr, "visit_expr", Kind(p, "cond"))
                /\ Called(tr, "visit_stmt", Kind(p, "block"))
                /\ Before(tr, Kind(p, "cond"), Kind(p, "block"))
          /\ \A p \in VariantOn(tr, "visit_stmt", "For") :
                /\ Len(Deref(tree, p).kind.init) = 1 =>
                     Called(tr, "visit_stmt", Elt(Kind(p, "init"), 1))
                /\ Len(Deref(tree, p).kind.cond) = 1 =>
                     Called(tr, "visit_expr", Elt(Kind(p, "cond"), 1))
                /\ Called(tr, "visit_stmt", Kind(p, "body"))
                /\ InOrder(tr, <<Kind(p, "init"), Kind(p, "cond"), Kind(p, "body")>>)
          /\ \A p \in VariantOn(tr, "visit_stmt", "Try") :
                LET t == Kind(p, "try_")
                    n == Len(Deref(tree, t).catch)
                IN  /\ Called(tr, "visit_expr", Fld(t, "expr"))
                    /\ Called(tr, "visit_block", Fld(t, "block"))
                    /\ \A k \in 1..n :
                         Called(tr, "visit_catch_clause", Elt(Fld(t, "catch"), k))
                    /\ InOrder(tr, <<Fld(t, "expr"), Fld(t, "block")>>
                                     \o [k \in 1..n |-> Elt(Fld(t, "catch"), k)])

\* Both walks are over of a try statement with a body and two catch clauses
\* that have bodies.
C5_Witness ==
  /\ visitor = "done"
  /\ \E p \in VariantOn(trace["VisitMut"], "visit_stmt", "Try") :
       LET t == Deref(tree, Kind(p, "try_"))
       IN  /\ Len(t.block) > 0
           /\ Len(t.catch) >= 2
           /\ \A k \in 1..Len(t.catch) : Len(t.catch[k].block) > 0

\* The position in tr of the call of m on the node at address at.
CallOf(tr, m, at) == CHOOSE i \in 1..Len(tr) : tr[i] = Call(m, at)

\* C6: visit_item_contract visits the name first, then every inheritance
\* modifier in declaration order, each completely before the next, then every
\* body item in declaration order.
C6_ContractOrder ==
  Returned =>
    \A v \in Visitors :
      LET tr == trace[v]
      IN  \A p \in CalledOn(tr, "visit_item_contract") :
            LET c == Deref(tree, p)
                inheritance == [k \in 1..Len(c.inheritance) |->
                                  Elt(Fld(p, "inheritance"), k)]
                body == [k \in 1..Len(c.body) |-> Elt(Fld(p, "body"), k)]
            IN  /\ tr[CallOf(tr, "visit_item_contract", p) + 1]
                     = Call("visit_ident", Fld(p, "name"))
                /\ \A k \in 1..Len(inheritance) :
                     Called(tr, "visit_modifier", inheritance[k])
                /\ \A k \in 1..Len(body) : Called(tr, "visit_item", body[k])
                /\ InOrder(tr, <<Fld(p, "name")>> \o inheritance \o body)

\* Both walks are over of a contract with two inheritance modifiers and two
\* body items.
C6_Witness ==
  /\ visitor = "done"
  /\ \E p \in CalledOn(trace["VisitMut"], "visit_item_contract") :
       /\ Len(Deref(tree, p).inheritance) >= 2
       /\ Len(Deref(tree, p).body) >= 2

(***************************************************************************)
(* Sessions (crates/interface/src/lib.rs).  One thread calls enter and     *)
(* enter_with_exit_code, from its top level and from inside the closures   *)
(* it passes to them.                                                      *)
(***************************************************************************)

\* Result<T, E>.
Ok(t) == [ok |-> TRUE, value |-> t]

Err(e) == [ok |-> FALSE, value |-> e]

ErrorGuaranteed == "ErrorGuaranteed"

Unit == "()"

SUCCESS == "ExitCode::SUCCESS"

FAILURE == "ExitCode::FAILURE"

\* How a call ends: it returns a value, or it unwinds with a panic payload.
Returns(value) == [payload |-> "none", value |-> value]

Unwinds(payload) == [payload |-> payload, value |-> Unit]

\* What the closure passed to fn can return: an R to enter, a
\* Result<(), ErrorGuaranteed> to enter_with_exit_code.
R == {"r1", "r2"}

ClosureValues(fn) ==
  IF fn = "enter" THEN R ELSE {Ok(Unit), Err(ErrorGuaranteed)}

\* FatalError::catch(f): Ok of what f returns; Err(ErrorGuaranteed) when f
\* unwinds with a FatalError; any other payload goes on unwinding.
catch(f) ==
  IF f.payload = "none" THEN Returns(Ok(f.value))
  ELSE IF f.payload = "FatalError" THEN Returns(Err(ErrorGuaranteed))
  ELSE Unwinds(f.payload)

\* FatalError::catch_with_exit_code(f): SUCCESS when catch(f) is Ok(Ok(())),
\* FAILURE when it is Ok(Err(_)) or Err(_).
catch_with_exit_code(f) ==
  LET caught == catch(f)
  IN  IF caught.payload # "none" THEN caught
      ELSE IF caught.value.ok /\ caught.value.value.ok THEN Returns(SUCCESS)
      ELSE Returns(FAILURE)

\* What an entry function makes of the way its closure ended.
Caught(catcher, f) ==
  CASE catcher = "catch" -> catch(f)
    [] catcher = "catch_with_exit_code" -> catch_with_exit_code(f)
    [] catcher = "exit_code" ->
         IF f.payload # "none" THEN f
         ELSE IF f.value.ok THEN Returns(SUCCESS) ELSE Returns(FAILURE)
    [] catcher = "catch_unwind" ->
         IF f.payload = "none" THEN Returns(Ok(f.value))
         ELSE Returns(Err(ErrorGuaranteed))
    [] OTHER -> IF f.payload = "none" THEN Returns(Ok(f.value)) ELSE f

\* A frame of the thread's stack: an entry function (fn is its name, catcher
\* what it wraps the closure in, session the SessionGlobals it created, 0 if
\* none, prev what the thread-local held before, result how its closure
\* ended), the closure passed to call number `call`, or a function that
\* closure calls.
Frame(fn, call, catcher, session, prev) ==
  [fn |-> fn, call |-> call, catcher |-> catcher, session |-> session,
   prev |-> prev, result |-> None]

Plain(fn, call) == Frame(fn, call, "none", 0, 0)

EntryFns == {"enter", "enter_with_exit_code"}

\* The call number of the outermost entry on the stack, 0 if there is none.
Outermost == IF frames = <<>> THEN 0 ELSE frames[Len(frames)].call

\* An entry of the log: what happened, in (the closure of) which call, which
\* call was the outermost one then, and the thread-local afterwards.
Event(ev, call, what, session) ==
  [ev |-> ev, call |-> call, what |-> what,
   outer |-> IF frames = <<>> THEN call ELSE Outermost, session |-> session]

\* A closure, or a function it called, is executing.
Running ==
  /\ panicking = "none"
  /\ frames # <<>>
  /\ Head(frames).fn \in {"closure", "fn"}

Steps == Cardinality({i \in DOMAIN log : log[i].ev \in {"step", "call"}})

\* SessionGlobals::with_or_default(f), on the way in: f runs with the
\* SessionGlobals the thread-local holds, or, when it holds none, with a new
\* one that is set for the time of f.
with_or_default ==
  IF SESSION_GLOBALS # 0
  THEN [SESSION_GLOBALS |-> SESSION_GLOBALS, sessions |-> sessions,
        created |-> created, session |-> 0]
  ELSE [SESSION_GLOBALS |-> created + 1,
        sessions |-> sessions \cup {created + 1},
        created |-> created + 1, session |-> created + 1]

\* SessionGlobals::with_or_default(f), on the way out (by return or by
\* unwinding): the SessionGlobals this entry created is dropped and the
\* thread-local holds what it held before.
Reset(frame) ==
  IF frame.session = 0
  THEN UNCHANGED <<SESSION_GLOBALS, sessions>>
  ELSE /\ SESSION_GLOBALS' = frame.prev
       /\ sessions' = sessions \ {frame.session}

\* The call of an entry function: f is called inside globals, inside catcher.
Enter(fn, globals, catcher) ==
  /\ panicking = "none"
  /\ IF frames = <<>> THEN TRUE ELSE Head(frames).fn \in {"closure", "fn"}
  /\ entered' = entered + 1
  /\ SESSION_GLOBALS' = globals.SESSION_GLOBALS
  /\ sessions' = globals.sessions
  /\ created' = globals.created
  /\ frames' = <<Plain("closure", entered + 1),
                 Frame(fn, entered + 1, catcher, globals.session,
                       SESSION_GLOBALS)>> \o frames
  /\ log' = Append(log, Event("enter", entered + 1, fn,
                              globals.SESSION_GLOBALS))
  /\ UNCHANGED <<panicking, visitVars, cliVars>>

\* enter, had it been with_or_default(|_| Ok(f())).
enter_without_catch ==
  /\ entered < MaxCalls
  /\ Enter("enter", with_or_default, "none")

\* enter, had it caught only where it created the session.
enter_catch_if_outermost ==
  /\ entered < MaxCalls
  /\ Enter("enter", with_or_default,
           IF SESSION_GLOBALS # 0 THEN "none" ELSE "catch")

\* enter, had it been SessionGlobals::new().set(|| FatalError::catch(f)).
enter_always_new ==
  /\ entered < MaxCalls
  /\ Enter("enter",
           [SESSION_GLOBALS |-> created + 1,
            sessions |-> sessions \cup {created + 1},
            created |-> created + 1, session |-> created + 1],
           "catch")

\* enter, had it been FatalError::catch(f).
enter_without_session ==
  /\ entered < MaxCalls
  /\ Enter("enter",
           [SESSION_GLOBALS |-> SESSION_GLOBALS, sessions |-> sessions,
            created |-> created, session |-> 0],
           "catch")

\* enter, had it turned every panic of f into Err(ErrorGuaranteed).
enter_catch_any_panic ==
  /\ entered < MaxCalls
  /\ Enter("enter", with_or_default, "catch_unwind")

\* pub fn enter<R>(f: impl FnOnce() -> R) -> Result<R, ErrorGuaranteed>
enter ==
  /\ entered < MaxCalls
  /\ Enter("enter", with_or_default, "catch")

\* enter_with_exit_code, had it mapped f() to a code without a catch.
enter_with_exit_code_without_catch ==
  /\ entered < MaxCalls
  /\ Enter("enter_with_exit_code", with_or_default, "exit_code")

\* pub fn enter_with_exit_code(f: impl FnOnce() -> Result<(), ErrorGuaranteed>)
\*   -> ExitCode
enter_with_exit_code ==
  /\ entered < MaxCalls
  /\ Enter("enter_with_exit_code", with_or_default, "catch_with_exit_code")

\* The closure, or a function it called, does a step of its work.
step ==
  /\ Running
  /\ Steps < MaxSteps
  /\ log' = Append(log, Event("step", Head(frames).call, Unit, SESSION_GLOBALS))
  /\ UNCHANGED <<frames, SESSION_GLOBALS, sessions, created, entered,
                 panicking, visitVars, cliVars>>

\* The closure, or a function it called, calls a function.
call_fn ==
  /\ Running
  /\ Steps < MaxSteps
  /\ frames' = <<Plain("fn", Head(frames).call)>> \o frames
  /\ log' = Append(log, Event("call", Head(frames).call, Unit, SESSION_GLOBALS))
  /\ UNCHANGED <<SESSION_GLOBALS, sessions, created, entered, panicking,
                 visitVars, cliVars>>

\* A function the closure called returns.
fn_returns ==
  /\ Running
  /\ Head(frames).fn = "fn"
  /\ frames' = Tail(frames)
  /\ log' = Append(log, Event("ret", Head(frames).call, Unit, SESSION_GLOBALS))
  /\ UNCHANGED <<SESSION_GLOBALS, sessions, created, entered, panicking,
                 visitVars, cliVars>>

\* FatalError.raise() (payload FatalError), or any other panic, in the
\* closure or in a function it called.
raise ==
  /\ Running
  /\ \E payload \in {"FatalError", "panic"} :
       /\ panicking' = payload
       /\ log' = Append(log, Event("raise", Head(frames).call, payload,
                                   SESSION_GLOBALS))
  /\ UNCHANGED <<frames, SESSION_GLOBALS, sessions, created, entered,
                 visitVars, cliVars>>

\* The unwinding leaves a function, or the closure.
unwind ==
  /\ panicking # "none"
  /\ frames # <<>>
  /\ Head(frames).fn \in {"closure", "fn"}
  /\ frames' = Tail(frames)
  /\ UNCHANGED <<SESSION_GLOBALS, sessions, created, entered, panicking, log,
                 visitVars, cliVars>>

\* The closure returns to the catcher of its entry function.
closure_returns ==
  /\ Running
  /\ Head(frames).fn = "closure"
  /\ LET entry == frames[2]
     IN  \E value \in ClosureValues(entry.fn) :
           /\ frames' = <<[entry EXCEPT !.result =
                             Some(Caught(entry.catcher, Returns(value)))]>>
                        \o Tail(Tail(frames))
           /\ log' = Append(log, Event("returned", entry.call, value,
                                       SESSION_GLOBALS))
  /\ UNCHANGED <<SESSION_GLOBALS, sessions, created, entered, panicking,
                 visitVars, cliVars>>

\* The unwinding of the closure reaches the catcher of its entry function.
closure_unwinds ==
  /\ panicking # "none"
  /\ frames # <<>>
  /\ Head(frames).fn \in EntryFns
  /\ Head(frames).result = None
  /\ LET entry == Head(frames)
         caught == Caught(entry.catcher, Unwinds(panicking))
     IN  /\ frames' = <<[entry EXCEPT !.result = Some(caught)]>> \o Tail(frames)
         /\ panicking' = caught.payload
  /\ UNCHANGED <<SESSION_GLOBALS, sessions, created, entered, log, visitVars, cliVars>>

\* The entry function is left: with_or_default is left, and the entry
\* function returns what its catcher returned, or unwinds on.
entry_exits ==
  /\ frames # <<>>
  /\ Head(frames).fn \in EntryFns
  /\ Head(frames).result # None
  /\ LET entry == Head(frames)
         result == entry.result[1]
         after == IF entry.session = 0 THEN SESSION_GLOBALS ELSE entry.prev
     IN  /\ Reset(entry)
         /\ frames' = Tail(frames)
         /\ log' = Append(log,
                      IF result.payload = "none"
                      THEN Event("return", entry.call, result.value, after)
                      ELSE Event("propagate", entry.call, result.payload, after))
  /\ UNCHANGED <<created, entered, panicking, visitVars, cliVars>>

\* The caller of the outermost entry function catches the panic that came
\* out of it (std::panic::catch_unwind), and goes on.
caller_catches ==
  /\ frames = <<>>
  /\ panicking # "none"
  /\ panicking' = "none"
  /\ UNCHANGED <<frames, SESSION_GLOBALS, sessions, created, entered, log,
                 visitVars, cliVars>>

\* No walk is under way.
NoWalk ==
  /\ tree = SourceUnit(<<>>)
  /\ visitor = "done"
  /\ stack = <<>>
  /\ trace = [Visit |-> <<>>, VisitMut |-> <<>>]

InitSession == NoWalk /\ NoThread /\ NoCli

NextSession ==
  \/ enter
  \/ enter_with_exit_code
  \/ step
  \/ call_fn
  \/ fn_returns
  \/ raise
  \/ unwind
  \/ closure_returns
  \/ closure_unwinds
  \/ entry_exits
  \/ caller_catches

SpecSession == InitSession /\ [][NextSession]_vars

(***************************************************************************)
(* Properties of the sessions                                              *)
(***************************************************************************)

\* The positions in the log of the events ev.
EventsOf(ev) == {i \in DOMAIN log : log[i].ev = ev}

\* The positions of the events ev of call c.
EventsIn(ev, c) == {i \in EventsOf(ev) : log[i].call = c}

\* The calls of the entry function fn that are over.
Completed(fn) ==
  {c \in 1..entered :
     /\ \A k \in DOMAIN frames : frames[k].call # c
     /\ \E i \in EventsIn("enter", c) : log[i].what = fn}

\* A FatalError was raised in the closure of call c, or in a function it
\* called.
FatalIn(c) == \E i \in EventsIn("raise", c) : log[i].what = "FatalError"

\* Call c returned exactly once, result, and did not unwind.
Returned1(c, result) ==
  /\ Cardinality(EventsIn("return", c)) = 1
  /\ \A i \in EventsIn("return", c) : log[i].what = result
  /\ EventsIn("propagate", c) = {}

\* No entry function was left by the unwinding of a FatalError.
NoFatalEscapes(fn) ==
  \A i \in EventsOf("propagate") :
    (\E j \in EventsIn("enter", log[i].call) : log[j].what = fn)
      => log[i].what # "FatalError"

\* C2: an enter call in whose closure, at any call depth, a FatalError is
\* raised returns Err(ErrorGuaranteed), and no FatalError unwinds out of an
\* enter call; an enter call whose closure returns r returns Ok(r).
C2_EnterCatchesFatal ==
  /\ NoFatalEscapes("enter")
  /\ \A c \in Completed("enter") :
       /\ FatalIn(c) => Returned1(c, Err(ErrorGuaranteed))
       /\ \A j \in EventsIn("returned", c) :
            ~FatalIn(c) /\ Returned1(c, Ok(log[j].what))

\* An enter call is over in whose closure a function raised a FatalError, and
\* another whose closure returned r2.
C2_Witness ==
  /\ \E c \in Completed("enter") :
       \E i \in EventsIn("raise", c) :
         /\ log[i].what = "FatalError"
         /\ i > 1
         /\ log[i - 1].ev = "call"
         /\ log[i - 1].call = c
  /\ \E c \in Completed("enter") :
       \E j \in EventsIn("returned", c) : log[j].what = "r2"

\* The entry frames on the stack, by position.
Entries == {k \in DOMAIN frames : frames[k].fn \in EntryFns}

\* C7: at every point at most one Session is active on the thread; an entry
\* (enter or enter_with_exit_code) made while one is active reuses it and
\* creates none, an entry made while none is active creates exactly one.
C7_OneSessionPerThread ==
  /\ [](/\ Cardinality(sessions) <= 1
        /\ IF SESSION_GLOBALS = 0 THEN sessions = {}
                                  ELSE sessions = {SESSION_GLOBALS})
  /\ [][entered' # entered =>
          IF SESSION_GLOBALS # 0
          THEN /\ SESSION_GLOBALS' = SESSION_GLOBALS
               /\ sessions' = sessions
               /\ created' = created
          ELSE /\ created' = created + 1
               /\ SESSION_GLOBALS' # 0
               /\ sessions' = {SESSION_GLOBALS'}]_vars

\* Two entries are nested, one of each entry function, in one session: the
\* outer one created it and the inner one reuses it.
C7_Witness ==
  /\ Cardinality(Entries) = MaxCalls
  /\ {frames[k].fn : k \in Entries} = EntryFns
  /\ Cardinality({k \in Entries : frames[k].session # 0}) = 1
  /\ sessions = {SESSION_GLOBALS}
  /\ created = 1

\* What an entry function returns for a caught FatalError.
Failed(c) ==
  IF \E i \in EventsIn("enter", c) : log[i].what = "enter"
  THEN Err(ErrorGuaranteed) ELSE FAILURE

\* The events that are work of a closure (all but its entry function's
\* return).
Work == {"step", "call", "ret", "raise", "returned", "enter"}

\* Each FatalError is caught exactly once, by the entry call in whose closure
\* it was raised, which returns an error and is not left by unwinding, and no
\* enter call returns Err without a FatalError raised in its closure.
CaughtOnce ==
  /\ \A c \in Completed("enter") \cup Completed("enter_with_exit_code") :
       FatalIn(c) => Returned1(c, Failed(c))
  /\ \A c \in Completed("enter") :
       \A i \in EventsIn("return", c) : ~log[i].what.ok => FatalIn(c)
  /\ NoFatalEscapes("enter")
  /\ NoFatalEscapes("enter_with_exit_code")

\* C8 as stated: for any nesting, after a FatalError is raised no further
\* step of the outermost enter's closure is executed, and the FatalError is
\* caught exactly once.
C8_OutermostClosureAborted ==
  /\ \A i \in EventsOf("raise") :
       log[i].what = "FatalError" =>
         \A k \in DOMAIN log :
           (k > i /\ log[k].outer = log[i].outer /\ log[k].call = log[k].outer)
             => log[k].ev \notin Work
  /\ CaughtOnce

\* C8, amended: for any nesting, after a FatalError is raised no further step
\* of the closure of the innermost entry call around it is executed, and the
\* FatalError is caught exactly once, by that call.
C8_InnermostClosureAborted ==
  /\ \A i \in EventsOf("raise") :
       log[i].what = "FatalError" =>
         \A k \in DOMAIN log :
           (k > i /\ log[k].call = log[i].call) => log[k].ev \notin Work
  /\ CaughtOnce

\* A FatalError was raised in the closure of a nested enter, which returned
\* Err, and the closure of the outermost enter did a step after that.
C8_Witness ==
  \E i \in EventsOf("raise") :
    /\ log[i].what = "FatalError"
    /\ log[i].call # log[i].outer
    /\ log[i].call \in Completed("enter")
    /\ \E j \in EventsIn("return", log[i].call) :
         /\ log[j].what = Err(ErrorGuaranteed)
         /\ \E k \in EventsIn("step", log[i].outer) : k > j

\* The positions in the log of the outermost entries.
OutermostEntries == {i \in EventsOf("enter") : log[i].call = log[i].outer}

\* The session the outermost entry call c created.
SessionOf(c) == log[CHOOSE i \in EventsIn("enter", c) : TRUE].session

\* C9: while an entry function is on the stack (so during the whole of its
\* closure) a Session is active; when the outermost entry is left, by return
\* or by unwinding, none is, and the next entry creates a Session that was
\* not active before; when a nested entry is left, the Session of the
\* outermost one is still active.
C9_SessionLifecycle ==
  /\ frames # <<>> => SESSION_GLOBALS # 0 /\ sessions = {SESSION_GLOBALS}
  /\ frames = <<>> => SESSION_GLOBALS = 0 /\ sessions = {}
  /\ \A i \in EventsOf("return") \cup EventsOf("propagate") :
       IF log[i].call = log[i].outer
       THEN log[i].session = 0
       ELSE log[i].session # 0 /\ log[i].session = SessionOf(log[i].outer)
  /\ \A i \in OutermostEntries :
       /\ log[i].session # 0
       /\ \A j \in OutermostEntries : j < i => log[j].session # log[i].session
  /\ \A i \in DOMAIN log :
       log[i].ev \in Work => log[i].session = SessionOf(log[i].outer)

\* An outermost enter was left by a propagated panic, and the next enter has
\* created a second Session, in which its closure runs.
C9_Witness ==
  /\ created = 2
  /\ Running
  /\ SESSION_GLOBALS = 2
  /\ \E i \in EventsOf("propagate") :
       /\ log[i].call = log[i].outer
       /\ \E j \in EventsIn("enter", log[i].call) : log[j].what = "enter"

\* C10: an enter_with_exit_code call returns FAILURE when a FatalError is
\* raised in its closure or the closure returns Err(ErrorGuaranteed), and
\* SUCCESS exactly when the closure returns Ok(()); no FatalError unwinds out
\* of it.
C10_ExitCode ==
  /\ NoFatalEscapes("enter_with_exit_code")
  /\ \A c \in Completed("enter_with_exit_code") :
       /\ FatalIn(c) => Returned1(c, FAILURE)
       /\ \A j \in EventsIn("returned", c) :
            Returned1(c, IF log[j].what.ok THEN SUCCESS ELSE FAILURE)
       /\ \A i \in EventsIn("return", c) :
            log[i].what = SUCCESS <=>
              /\ ~FatalIn(c)
              /\ \E j \in EventsIn("returned", c) : log[j].what.ok

\* Two enter_with_exit_code calls are over: one caught a FatalError and
\* returned FAILURE, the closure of the other returned Ok(()) and it returned
\* SUCCESS.
C10_Witness ==
  /\ \E c \in Completed("enter_with_exit_code") :
       /\ FatalIn(c)
       /\ \E i \in EventsIn("return", c) : log[i].what = FAILURE
  /\ \E c \in Completed("enter_with_exit_code") :
       /\ \E j \in EventsIn("returned", c) : log[j].what.ok
       /\ \E i \in EventsIn("return", c) : log[i].what = SUCCESS

\* A panic that is not a FatalError was raised in the closure of call c, or
\* in a function it called.
PanicIn(c) == \E i \in EventsIn("raise", c) : log[i].what = "panic"

\* C11: an enter call in whose closure a panic that is not a FatalError is
\* raised does not return (no Err, no Ok): the panic unwinds out of it to its
\* caller; and enter returns Err only for a FatalError.
C11_OtherPanicsPropagate ==
  \A c \in Completed("enter") :
    /\ PanicIn(c) =>
         /\ EventsIn("return", c) = {}
         /\ Cardinality(EventsIn("propagate", c)) = 1
         /\ \A i \in EventsIn("propagate", c) : log[i].what = "panic"
    /\ \A i \in EventsIn("return", c) :
         ~log[i].what.ok => FatalIn(c) /\ ~PanicIn(c)

\* A panic raised in the closure of a nested enter has left both enter calls
\* and reached the caller of the outermost one.
C11_Witness ==
  /\ frames = <<>>
  /\ panicking = "panic"
  /\ \E c \in Completed("enter") :
       /\ PanicIn(c)
       /\ \E i \in EventsIn("enter", c) : log[i].outer # c
       /\ \E i \in EventsOf("propagate") : log[i].call # c

(***************************************************************************)
(* The command line (crates/solar/src/cli.rs).  A string is the sequence   *)
(* of its pieces: the characters "-", "=", "Z", a digit, or a whole name.  *)
(***************************************************************************)

StartsWith(str, prefix) ==
  /\ Len(str) >= Len(prefix)
  /\ SubSeq(str, 1, Len(prefix)) = prefix

\* The position of the first c in str, 0 if there is none.
Find(str, c) ==
  IF \E i \in DOMAIN str : str[i] = c
  THEN CHOOSE i \in DOMAIN str :
         str[i] = c /\ \A j \in 1..(i - 1) : str[j] # c
  ELSE 0

\* str.split_once(c): the text before and after the first c, None without c.
split_once(str, c) ==
  IF Find(str, c) = 0 THEN None
  ELSE Some(<<SubSeq(str, 1, Find(str, c) - 1),
              SubSeq(str, Find(str, c) + 1, Len(str))>>)

\* str.parse::<usize>(): the number a string of decimal digits writes.
Digit(c) ==
  CASE c = "0" -> 0 [] c = "1" -> 1 [] c = "2" -> 2 [] c = "3" -> 3
    [] c = "4" -> 4 [] c = "5" -> 5 [] c = "6" -> 6 [] c = "7" -> 7
    [] c = "8" -> 8 [] c = "9" -> 9 [] OTHER -> -1

RECURSIVE usize(_)
usize(str) ==
  IF str = <<>> \/ \E i \in DOMAIN str : Digit(str[i]) < 0 THEN None
  ELSE IF Len(str) = 1 THEN Some(Digit(str[1]))
  ELSE Some(10 * usize(SubSeq(str, 1, Len(str) - 1))[1] + Digit(str[Len(str)]))

ClapError == Err("clap::Error")

\* #[derive(Default)] struct UnstableFeatures
UnstableFeatures ==
  [ui_testing |-> FALSE, track_diagnostics |-> FALSE, parse_yul |-> FALSE,
   test_bool |-> FALSE, test_value |-> None]

\* The long options of UnstableFeatures that are flags, each with its field.
UnstableFlags ==
  [name \in {"ui-testing", "track-diagnostics", "parse-yul", "test-bool"} |->
     CASE name = "ui-testing" -> "ui_testing"
       [] name = "track-diagnostics" -> "track_diagnostics"
       [] name = "parse-yul" -> "parse_yul"
       [] name = "test-bool" -> "test_bool"]

\* UnstableFeatures::try_parse_from(args), after the name of the binary: each
\* argument is a long option, --flag for a bool, --test-value=N or
\* --test-value N for the value; an option given twice, an unknown option, a
\* missing or malformed value, a value given to a flag and a positional
\* argument are errors.
RECURSIVE UnstableFeatures_parse(_, _, _)
UnstableFeatures_parse(rest, unstable, seen) ==
  IF rest = <<>> THEN Ok(unstable)
  ELSE
    LET arg == Head(rest)
        eq == Find(arg, "=")
        name == IF eq = 0 THEN SubSeq(arg, 3, Len(arg))
                ELSE SubSeq(arg, 3, eq - 1)
        attached == SubSeq(arg, eq + 1, Len(arg))
        separate == /\ eq = 0
                    /\ Len(rest) > 1
                    /\ ~StartsWith(rest[2], <<"-">>)
        value == IF eq # 0 THEN usize(attached)
                 ELSE IF separate THEN usize(rest[2])
                 ELSE None
    IN  IF ~StartsWith(arg, <<"-", "-">>) THEN ClapError
        ELSE IF Len(arg) = 2
        THEN IF Len(rest) = 1 THEN Ok(unstable) ELSE ClapError
        ELSE IF Len(name) # 1 \/ name[1] \in seen THEN ClapError
        ELSE IF name[1] \in DOMAIN UnstableFlags
        THEN IF eq # 0 THEN ClapError
             ELSE UnstableFeatures_parse(
                    Tail(rest),
                    [unstable EXCEPT ![UnstableFlags[name[1]]] = TRUE],
                    seen \cup {name[1]})
        ELSE IF name[1] = "test-value"
        THEN IF value = None THEN ClapError
             ELSE UnstableFeatures_parse(
                    IF eq # 0 THEN Tail(rest) ELSE Tail(Tail(rest)),
                    [unstable EXCEPT !.test_value = value],
                    seen \cup {name[1]})
        ELSE ClapError

UnstableFeatures_try_parse_from(itr) ==
  IF itr = <<>> THEN Ok(UnstableFeatures)
  ELSE UnstableFeatures_parse(Tail(itr), UnstableFeatures, {})

\* Args::try_parse_from(args), after the name of the binary: -Z takes one
\* value, the rest of its argument (less a leading '=') or else the next
\* argument, and may be given many times; any other argument that does not
\* start with '-' is an input file.
RECURSIVE Args_parse(_, _)
Args_parse(rest, self) ==
  IF rest = <<>> THEN Ok(self)
  ELSE
    LET arg == Head(rest)
        attached == IF StartsWith(arg, <<"-", "Z", "=">>)
                    THEN SubSeq(arg, 4, Len(arg))
                    ELSE SubSeq(arg, 3, Len(arg))
        separate == Len(rest) > 1 /\ ~StartsWith(rest[2], <<"-">>)
    IN  IF StartsWith(arg, <<"-", "Z">>)
        THEN IF Len(arg) > 2
             THEN Args_parse(Tail(rest),
                    [self EXCEPT !.unstable_ = Append(@, attached)])
             ELSE IF separate
             THEN Args_parse(Tail(Tail(rest)),
                    [self EXCEPT !.unstable_ = Append(@, rest[2])])
             ELSE ClapError
        ELSE IF StartsWith(arg, <<"-">>) THEN ClapError
        ELSE Args_parse(Tail(rest), [self EXCEPT !.input = Append(@, arg)])

\* struct Args: input, _unstable (here unstable_) and unstable, which is
\* skipped by the parser and starts as the default.
Args_try_parse_from(itr) ==
  IF itr = <<>> THEN ClapError
  ELSE Args_parse(Tail(itr),
         [input |-> <<>>, unstable_ |-> <<>>, unstable |-> UnstableFeatures])

\* populate_unstable, had it left out the empty name of the binary.
populate_unstable_without_name ==
  /\ cli_args # None
  /\ cli_args[1].ok
  /\ populated = None
  /\ LET self == cli_args[1].value
         hack == [i \in DOMAIN self.unstable_ |-> <<"-", "-">> \o self.unstable_[i]]
         parsed == UnstableFeatures_try_parse_from(hack)
     IN  IF self.unstable_ # <<>>
         THEN IF parsed.ok
              THEN /\ cli_args' = Some(Ok([self EXCEPT !.unstable = parsed.value]))
                   /\ populated' = Some(Ok(Unit))
              ELSE /\ populated' = Some(parsed)
                   /\ UNCHANGED cli_args
         ELSE /\ populated' = Some(Ok(Unit))
              /\ UNCHANGED cli_args
  /\ UNCHANGED <<argv, from, import_map, visitVars, sessionVars>>

\* pub(crate) fn populate_unstable(&mut self) -> Result<(), clap::Error>
populate_unstable ==
  /\ cli_args # None
  /\ cli_args[1].ok
  /\ populated = None
  /\ LET self == cli_args[1].value
         hack == [i \in DOMAIN self.unstable_ |-> <<"-", "-">> \o self.unstable_[i]]
         parsed == UnstableFeatures_try_parse_from(<<<<>>>> \o hack)
     IN  IF self.unstable_ # <<>>
         THEN IF parsed.ok
              THEN /\ cli_args' = Some(Ok([self EXCEPT !.unstable = parsed.value]))
                   /\ populated' = Some(Ok(Unit))
              ELSE /\ populated' = Some(parsed)
                   /\ UNCHANGED cli_args
         ELSE /\ populated' = Some(Ok(Unit))
              /\ UNCHANGED cli_args
  /\ UNCHANGED <<argv, from, import_map, visitVars, sessionVars>>

\* let mut args = Args::try_parse_from(args)
try_parse_from ==
  /\ argv # <<>>
  /\ cli_args = None
  /\ cli_args' = Some(Args_try_parse_from(argv))
  /\ UNCHANGED <<argv, populated, from, import_map, visitVars, sessionVars>>

\* The arguments the command lines are made of.
ArgPool ==
  {<<"-", "Z", "test-bool">>, <<"-", "Z">>, <<"test-bool">>,
   <<"-", "Z", "test-value">>, <<"test-value">>, <<"2">>,
   <<"-", "Z", "test-value", "=", "2">>, <<"test-value", "=", "2">>,
   <<"-", "Z", "test-value", "=", "1", "0">>,
   <<"-", "Z", "=", "parse-yul">>, <<"a.sol">>}

\* solar and up to MaxArgs arguments.
Argvs ==
  UNION {{<<<<"solar">>>> \o rest : rest \in [1..n -> ArgPool]} : n \in 0..MaxArgs}

InitUnstable ==
  /\ argv \in Argvs
  /\ cli_args = None
  /\ populated = None
  /\ from = <<>>
  /\ import_map = None
  /\ NoWalk
  /\ NoThread

NextUnstable ==
  \/ try_parse_from
  \/ populate_unstable

SpecUnstable == InitUnstable /\ [][NextUnstable]_vars

(***************************************************************************)
(* Properties of the command line                                          *)
(***************************************************************************)

\* The positions on the command line of the -Z options.
ZOptions == {k \in 2..Len(argv) : StartsWith(argv[k], <<"-", "Z">>)}

\* The FLAG the -Z option at position k is given: the rest of `-ZFLAG` (or
\* `-Z=FLAG`), or the argument after `-Z`.
FlagAt(k) ==
  IF Len(argv[k]) = 2 THEN argv[k + 1]
  ELSE IF argv[k][3] = "=" THEN SubSeq(argv[k], 4, Len(argv[k]))
  ELSE SubSeq(argv[k], 3, Len(argv[k]))

\* The number a FLAG of the form test-value=N gives, None for any other FLAG.
ValueOf(flag) ==
  IF StartsWith(flag, <<"test-value", "=">>) /\ Len(flag) > 2
  THEN usize(SubSeq(flag, 3, Len(flag)))
  ELSE None

\* C12: once the command line is parsed and populate_unstable has run, with
\* F the FLAGs of the -Z options (given as -ZFLAG or as -Z FLAG): without -Z
\* the unstable features are the defaults; when populate_unstable succeeds a
\* boolean feature is true exactly if its name is in F, and test_value is
\* Some(N) exactly if test-value=N is in F; and when F holds test-value
\* without a value (also when the value follows as a separate argument)
\* populate_unstable fails.
C12_PopulateUnstable ==
  (cli_args # None /\ populated # None) =>
    LET self == cli_args[1].value
        F == {FlagAt(k) : k \in ZOptions}
        ok == populated[1].ok
    IN  /\ Range(self.unstable_) = F
        /\ Len(self.unstable_) = Cardinality(ZOptions)
        /\ F = {} => ok /\ self.unstable = UnstableFeatures
        /\ ok =>
             /\ \A name \in DOMAIN UnstableFlags :
                  self.unstable[UnstableFlags[name]] <=> <<name>> \in F
             /\ \A flag \in F : ValueOf(flag) # None =>
                  self.unstable.test_value = ValueOf(flag)
             /\ self.unstable.test_value # None =>
                  \E flag \in F : ValueOf(flag) = self.unstable.test_value
             /\ \A flag \in F :
                  StartsWith(flag, <<"test-value">>) => ValueOf(flag) # None
        /\ <<"test-value">> \in F => ~ok

\* `solar -Z test-bool -Ztest-value=2 a.sol` has been parsed: test_bool is
\* true and test_value is Some(2).
C12_Witness ==
  /\ argv = <<<<"solar">>, <<"-", "Z">>, <<"test-bool">>,
              <<"-", "Z", "test-value", "=", "2">>>>
  /\ populated = Some(Ok(Unit))
  /\ cli_args[1].value.unstable.test_bool
  /\ cli_args[1].value.unstable.test_value = Some(2)

(***************************************************************************)
(* The walk, method by method.                                             *)
(***************************************************************************)
\* The calls the running method makes in this step, in the order it makes them.
Made == SubSeq(stack', 1, Len(stack') - Len(stack) + 1)

\* A visit method runs in this step.
Runs == visitor \in Visitors /\ visitor' = visitor /\ stack # <<>>

\* The nodes with docs, span and kind: Item, Stmt and yul::Stmt.
Documented == {"visit_item", "visit_stmt", "visit_yul_stmt"}

\* C13: every default visit method visits the fields of its node in the order
\* of its destructuring pattern; for Item, Stmt and yul::Stmt (docs, span,
\* kind) that is the doc comments first, then the span, then the children of
\* kind.
C13_DeclarationOrder ==
  [][Runs =>
       /\ Made = Fields(Top.m, Arg, Top.at)
       /\ Top.m \in Documented =>
            /\ Made[1] = Call("visit_doc_comments", Fld(Top.at, "docs"))
            /\ Made[2] = Call("visit_span", Fld(Top.at, "span"))]_vars

\* The visit methods of the Yul grammar.
YulMethods ==
  {"visit_yul_block", "visit_yul_stmt", "visit_yul_expr", "visit_yul_expr_call",
   "visit_yul_function", "visit_yul_stmt_switch", "visit_yul_stmt_case"}

\* The node methods of the outer grammar.
OuterMethods == {"visit_item", "visit_stmt", "visit_expr", "visit_ty", "visit_block"}

\* Call j of tr is made inside the dynamic extent of an earlier call of m: a
\* method hands its callees only parts of its own node, so the calls made
\* while a call on the node at p runs are the later calls on nodes below p.
Inside(tr, j, m) ==
  \E i \in 1..(j - 1) : tr[i].m = m /\ Under(tr[i].at, tr[j].at) /\ tr[i].at # tr[j].at

\* C14: every call of a Yul method happens inside the dynamic extent of a
\* visit_stmt_assembly call, and no Yul method calls visit_item, visit_stmt,
\* visit_expr, visit_ty or visit_block.
C14_YulOnlyThroughAssembly ==
  /\ [](\A v \in Visitors : \A j \in 1..Len(trace[v]) :
          trace[v][j].m \in YulMethods => Inside(trace[v], j, "visit_stmt_assembly"))
  /\ [][Runs /\ Top.m \in YulMethods =>
          \A k \in 1..Len(Made) : Made[k].m \notin OuterMethods]_vars

\* Both walks have returned from a tree with a Yul function whose body holds a
\* statement: Yul methods called Yul methods, below an assembly statement.
C14_Witness ==
  /\ visitor = "done"
  /\ \A v \in Visitors :
       \E i, j \in 1..Len(trace[v]) :
         /\ trace[v][i].m = "visit_yul_function"
         /\ trace[v][j].m = "visit_yul_stmt"
         /\ i < j
         /\ Under(trace[v][i].at, trace[v][j].at)
         /\ Inside(trace[v], i, "visit_stmt_assembly")

\* C15: the default mutating walk from visit_source_unit_mut leaves every
\* node, field, span and symbol of the tree as it was, and visit_span /
\* visit_span_mut does nothing: it makes no call and changes nothing.
C15_DefaultWalkIsNoOp ==
  [][/\ visitor = "VisitMut" => tree' = tree
     /\ Runs /\ Top.m = "visit_span" => tree' = tree /\ Made = <<>>]_vars

\* The mutating walk has returned after visiting spans, identifiers and a
\* literal.
C15_Witness ==
  /\ visitor = "done"
  /\ \A m \in {"visit_span", "visit_ident", "visit_lit"} :
       CalledOn(trace["VisitMut"], m) # {}

(***************************************************************************)
(* crates/solar/src/cli.rs : ImportMap, the value of -m / --import-map,    *)
(* which clap parses with ImportMap::from_str.                             *)
(***************************************************************************)
\* PathBuf::from(str): a path that owns the text of str, unchanged.
PathBuf(str) == [inner |-> str]

ImportMap(map, path) == [map |-> map, path |-> path]

\* The position of the last c in str, 0 if there is none.
FindLast(str, c) ==
  IF \E i \in DOMAIN str : str[i] = c
  THEN CHOOSE i \in DOMAIN str :
         str[i] = c /\ \A j \in (i + 1)..Len(str) : str[j] # c
  ELSE 0

\* from_str as it would be if it split at the last '=' (rsplit_once).
from_str_at_last ==
  /\ import_map = None
  /\ LET k == FindLast(from, "=")
     IN  import_map' =
           Some(IF k # 0
                THEN Ok(ImportMap(PathBuf(SubSeq(from, 1, k - 1)),
                                  PathBuf(SubSeq(from, k + 1, Len(from)))))
                ELSE Err("missing '='"))
  /\ UNCHANGED <<argv, cli_args, populated, from, visitVars, sessionVars>>

from_str ==
  /\ import_map = None
  /\ LET split == split_once(from, "=")
     IN  import_map' =
           Some(IF split # None
                THEN LET a == split[1][1]
                         b == split[1][2]
                     IN  Ok(ImportMap(PathBuf(a), PathBuf(b)))
                ELSE Err("missing '='"))
  /\ UNCHANGED <<argv, cli_args, populated, from, visitVars, sessionVars>>

\* The characters the strings are made of.
Chars == {"a", "/", "="}

\* Every string of up to MaxStr characters.
Strs == UNION {[1..n -> Chars] : n \in 0..MaxStr}

InitImportMap ==
  /\ from \in Strs
  /\ import_map = None
  /\ argv = <<>>
  /\ cli_args = None
  /\ populated = None
  /\ NoWalk
  /\ NoThread

NextImportMap == from_str

SpecImportMap == InitImportMap /\ [][NextImportMap]_vars

\* C16: from_str(s) is Err("missing '='") exactly when s has no '=';
\* otherwise it is Ok with map the text before the first '=' and path all the
\* text after it, so that map, '=' and path in a row make s again.
C16_ImportMapFromStr ==
  import_map # None =>
    LET r == import_map[1]
    IN  /\ r.ok <=> "=" \in Range(from)
        /\ ~r.ok => r.value = "missing '='"
        /\ r.ok =>
             /\ "=" \notin Range(r.value.map.inner)
             /\ r.value.map.inner \o <<"=">> \o r.value.path.inner = from

\* A string with two '=' was parsed: the second one stays in the path.
C16_Witness ==
  /\ import_map # None
  /\ import_map[1].ok
  /\ import_map[1].value.map.inner # <<>>
  /\ "=" \in Range(import_map[1].value.path.inner)
====
